---- MODULE Spec2Model ----
(***************************************************************************)
(* Model of the lectara content service: the URL canonicalizer             *)
(* (validation.rs), the idempotent-or-conflict ingestion handler           *)
(* (routes/api/v1.rs, repositories/content.rs) and the graceful-shutdown   *)
(* request coordinator (shutdown.rs, main.rs).                             *)
(*                                                                         *)
(* Text is modelled as a sequence of one-character strings, so that        *)
(* parsing and formatting are computed and not assumed.  Option<T> is a    *)
(* sequence of length at most one: None is << >>, Some(x) is <<x>>.        *)
(***************************************************************************)
EXTENDS Integers, Sequences, FiniteSets, TLC

\* ------------------------------------------------------------------------
\* Bounds of the model
\* ------------------------------------------------------------------------

\* number of request slots (concurrent connections) of the server
MaxRequests == 2

\* latest value of the store's clock (created_at timestamps are 0..MaxTime)
MaxTime == 1

\* ------------------------------------------------------------------------
\* Text helpers
\* ------------------------------------------------------------------------

None == << >>

Some(x) == <<x>>

\* the characters of the model, in ASCII order (the order of String::cmp)
Alphabet ==
    << " ", "#", "%", "&", "+", "-", ".", "/",
       "0", "1", "2", "3", "4", "5", "6", "7", "8", "9",
       ":", "=", "?",
       "A", "B", "D", "H", "L", "P", "S", "T",
       "a", "b", "c", "d", "e", "f", "h", "i", "j", "l", "o", "p", "r", "s", "t",
       "v", "x" >>

Ord(c) == CHOOSE i \in 1..Len(Alphabet) : Alphabet[i] = c

Digits == <<"0", "1", "2", "3", "4", "5", "6", "7", "8", "9">>

IsDigit(c) == \E i \in 1..10 : Digits[i] = c

DigitVal(c) == (CHOOSE i \in 1..10 : Digits[i] = c) - 1

\* char::to_lowercase on the upper-case letters of the alphabet
LowerChar(c) ==
    CASE c = "A" -> "a"
      [] c = "B" -> "b"
      [] c = "D" -> "d"
      [] c = "H" -> "h"
      [] c = "L" -> "l"
      [] c = "P" -> "p"
      [] c = "S" -> "s"
      [] c = "T" -> "t"
      [] OTHER -> c

to_lowercase(s) == [i \in 1..Len(s) |-> LowerChar(s[i])]

\* position of the first occurrence of one of the characters cs in s, 0 if none
IndexOfAny(s, cs) ==
    IF \E i \in 1..Len(s) : s[i] \in cs
    THEN CHOOSE i \in 1..Len(s) : s[i] \in cs /\ \A j \in 1..(i - 1) : s[j] \notin cs
    ELSE 0

\* position of the last occurrence of character c in s, 0 if none
LastIndexOf(s, c) ==
    IF \E i \in 1..Len(s) : s[i] = c
    THEN CHOOSE i \in 1..Len(s) : s[i] = c /\ \A j \in (i + 1)..Len(s) : s[j] # c
    ELSE 0

starts_with(s, p) == Len(s) >= Len(p) /\ SubSeq(s, 1, Len(p)) = p

\* suffix of s that starts at position i
From(s, i) == SubSeq(s, i, Len(s))

\* String::cmp: lexicographic order on the characters
RECURSIVE StrLt(_, _)
StrLt(a, b) ==
    IF b = << >> THEN FALSE
    ELSE IF a = << >> THEN TRUE
    ELSE IF a[1] = b[1] THEN StrLt(Tail(a), Tail(b))
    ELSE Ord(a[1]) < Ord(b[1])

\* str::trim: strip leading and trailing white space
RECURSIVE trim_start(_)
trim_start(s) == IF s # << >> /\ s[1] = " " THEN trim_start(Tail(s)) ELSE s

RECURSIVE trim_end(_)
trim_end(s) ==
    IF s # << >> /\ s[Len(s)] = " " THEN trim_end(SubSeq(s, 1, Len(s) - 1)) ELSE s

trim(s) == trim_end(trim_start(s))

\* decimal value of a sequence of digits
RECURSIVE ParseNat(_)
ParseNat(s) ==
    IF s = << >> THEN 0 ELSE 10 * ParseNat(SubSeq(s, 1, Len(s) - 1)) + DigitVal(s[Len(s)])

\* decimal rendering of a natural number ({port} in a format string)
RECURSIVE FormatNat(_)
FormatNat(n) ==
    IF n < 10 THEN <<Digits[n + 1]>> ELSE FormatNat(n \div 10) \o <<Digits[(n % 10) + 1]>>

\* ------------------------------------------------------------------------
\* url::Url as validation.rs uses it: Url::parse and the accessors scheme(),
\* host_str(), port(), path(), query(), query_pairs()
\* ------------------------------------------------------------------------

HTTP == <<"h", "t", "t", "p">>

HTTPS == <<"h", "t", "t", "p", "s">>

FTP == <<"f", "t", "p">>

\* schemes the parser treats as hierarchical ("special"), with an authority
SpecialSchemes == {HTTP, HTTPS, FTP}

DefaultPort(scheme) ==
    IF scheme = HTTP THEN 80 ELSE IF scheme = HTTPS THEN 443 ELSE 21

MaxPort == 65535

ParseFail == [ok |-> FALSE]

RECURSIVE strip_slashes(_)
strip_slashes(s) == IF s # << >> /\ s[1] = "/" THEN strip_slashes(Tail(s)) ELSE s

\* the part of s before position i (all of s when i is 0)
TakeBefore(s, i) == IF i = 0 THEN s ELSE SubSeq(s, 1, i - 1)

\* the part of s from position i on (nothing when i is 0)
TakeFrom(s, i) == IF i = 0 THEN << >> ELSE From(s, i)

\* the part of s before its first character in cs (all of s if there is none)
Before(s, cs) == TakeBefore(s, IndexOfAny(s, cs))

\* the part of s from its first character in cs on (empty if there is none)
FromFirst(s, cs) == TakeFrom(s, IndexOfAny(s, cs))

\* the part of s after its first character in cs (empty if there is none)
AfterFirst(s, cs) == TakeFrom(s, IF IndexOfAny(s, cs) = 0 THEN 0 ELSE IndexOfAny(s, cs) + 1)

\* the query component of "path?query": Some(query) when there is a '?'
QueryOf(s) == IF IndexOfAny(s, {"?"}) = 0 THEN None ELSE Some(AfterFirst(s, {"?"}))

\* Url::parse, the host, port and path of a special scheme checked and stored
ParseParts(scheme, hostraw, portraw, tailpart) ==
    IF hostraw = << >> THEN ParseFail
    ELSE IF \E i \in 1..Len(hostraw) : hostraw[i] \in {" ", "%", "&", "=", "+", ":"}
    THEN ParseFail
    ELSE IF \E i \in 1..Len(portraw) : ~IsDigit(portraw[i]) THEN ParseFail
    ELSE IF Len(portraw) > 5 \/ ParseNat(portraw) > MaxPort THEN ParseFail
    ELSE [ok |-> TRUE, scheme |-> scheme,
          host |-> Some(to_lowercase(hostraw)),
          port |-> IF portraw = << >> \/ ParseNat(portraw) = DefaultPort(scheme)
                   THEN None ELSE Some(ParseNat(portraw)),
          path |-> IF Before(tailpart, {"?"}) = << >> THEN <<"/">>
                   ELSE Before(tailpart, {"?"}),
          query |-> QueryOf(tailpart)]

\* Url::parse, the authority split at its last ':' into host and port
ParseAuthority(scheme, authority, pcolon, tailpart) ==
    ParseParts(scheme,
               IF pcolon = 0 THEN authority ELSE SubSeq(authority, 1, pcolon - 1),
               IF pcolon = 0 THEN << >> ELSE From(authority, pcolon + 1),
               tailpart)

\* Url::parse of a special scheme, after "scheme:" and the slashes
ParseHierarchical(scheme, after) ==
    ParseAuthority(scheme, Before(after, {"/", "?"}),
                   LastIndexOf(Before(after, {"/", "?"}), ":"),
                   FromFirst(after, {"/", "?"}))

\* Url::parse, what follows "scheme:" with the fragment cut off
ParseAfterScheme(scheme, nofrag) ==
    IF \E i \in 1..Len(scheme) : scheme[i] \in {"/", "?", "#", " ", ".", "%", "&", "="}
    THEN ParseFail
    ELSE IF scheme \notin SpecialSchemes
    THEN [ok |-> TRUE, scheme |-> scheme, host |-> None, port |-> None,
          path |-> Before(nofrag, {"?"}), query |-> QueryOf(nofrag)]
    ELSE ParseHierarchical(scheme, strip_slashes(nofrag))

\* Url::parse, the input split at its first ':'
ParseAt(s, colon) ==
    IF colon <= 1 THEN ParseFail
    ELSE ParseAfterScheme(to_lowercase(SubSeq(s, 1, colon - 1)),
                          Before(From(s, colon + 1), {"#"}))

\* Url::parse for an absolute URL
UrlParse(s) == ParseAt(s, IndexOfAny(s, {":"}))

\* form_urlencoded decoding of one key or value: '+' is a space, %XX a byte
RECURSIVE PercentDecode(_)
PercentDecode(s) ==
    IF s = << >> THEN << >>
    ELSE IF s[1] = "+" THEN <<" ">> \o PercentDecode(Tail(s))
    ELSE IF starts_with(s, <<"%", "2", "6">>) THEN <<"&">> \o PercentDecode(From(s, 4))
    ELSE IF starts_with(s, <<"%", "3", "D">>) THEN <<"=">> \o PercentDecode(From(s, 4))
    ELSE IF starts_with(s, <<"%", "2", "0">>) THEN <<" ">> \o PercentDecode(From(s, 4))
    ELSE <<s[1]>> \o PercentDecode(Tail(s))

\* one piece of a query string split at position eq of its first '='
SplitPair(piece, eq) ==
    IF eq = 0 THEN <<PercentDecode(piece), << >> >>
    ELSE <<PercentDecode(SubSeq(piece, 1, eq - 1)), PercentDecode(From(piece, eq + 1))>>

\* one "key=value" piece of a query string, decoded
ParsePair(piece) == SplitPair(piece, IndexOfAny(piece, {"="}))

\* Url::query_pairs: the pieces between '&', empty pieces skipped, in order
RECURSIVE query_pairs(_)
RECURSIVE PairsFrom(_, _)
PairsFrom(piece, more) ==
    IF piece = << >> THEN query_pairs(more)
    ELSE <<ParsePair(piece)>> \o query_pairs(more)

query_pairs(q) ==
    IF q = << >> THEN << >>
    ELSE PairsFrom(Before(q, {"&"}), AfterFirst(q, {"&"}))

\* ------------------------------------------------------------------------
\* validation.rs
\* ------------------------------------------------------------------------

Err(error) == [ok |-> FALSE, err |-> error]

Ok(v) == [ok |-> TRUE, val |-> v]

\* a sorted map that keeps the value a key already has
InsertIfAbsent(m, k, v) ==
    IF \E i \in 1..Len(m) : m[i][1] = k THEN m
    ELSE SortSeq(Append(m, <<k, v>>), LAMBDA x, y : StrLt(x[1], y[1]))

\* a map that keeps its entries in the order of their insertion
InsertAtEnd(m, k, v) == Append(m, <<k, v>>)

\* BTreeMap::insert on a map kept as a sequence of <<key, value>> sorted by key
RECURSIVE BTreeInsert(_, _, _)
BTreeInsert(m, k, v) ==
    IF m = << >> THEN << <<k, v>> >>
    ELSE IF m[1][1] = k THEN << <<k, v>> >> \o Tail(m)
    ELSE IF StrLt(k, m[1][1]) THEN << <<k, v>> >> \o m
    ELSE <<m[1]>> \o BTreeInsert(Tail(m), k, v)

\* the loop `for (key, value) in url.query_pairs() { params.insert(..) }`
RECURSIVE CollectParams(_, _)
CollectParams(m, pairs) ==
    IF pairs = << >> THEN m
    ELSE CollectParams(BTreeInsert(m, pairs[1][1], pairs[1][2]), Tail(pairs))

IsLocalHost(host) ==
    \/ host = <<"l", "o", "c", "a", "l", "h", "o", "s", "t">>
    \/ starts_with(host, <<"1", "2", "7", ".">>)
    \/ starts_with(host, <<"1", "9", "2", ".", "1", "6", "8", ".">>)
    \/ starts_with(host, <<"1", "0", ".">>)

\* a port filter that keeps no port
DropsEveryPort(scheme, port) == None

NormalizePort(scheme, port) ==
    IF port # None /\ port[1] # (IF scheme = HTTP THEN 80 ELSE 443) THEN port ELSE None

\* a path taken as it is
NormalizePathKeepsSlash(path) == path

NormalizePath(path) ==
    IF path = << >> \/ path = <<"/">> THEN <<"/">>
    ELSE IF path[Len(path)] = "/" THEN SubSeq(path, 1, Len(path) - 1)
    ELSE path

\* `if params.is_empty() { None } else { Some(params) }`
NonEmptyParams(params) == IF params = << >> THEN None ELSE Some(params)

NormalizeQuery(query) ==
    IF query # None
    THEN NonEmptyParams(CollectParams(<< >>, query_pairs(query[1])))
    ELSE None

\* try_from once the host is in lower case
CheckedUrl(url, host) ==
    IF IsLocalHost(host) THEN Err("LocalAddress")
    ELSE Ok([scheme |-> url.scheme,
             host   |-> host,
             port   |-> NormalizePort(url.scheme, url.port),
             path   |-> NormalizePath(url.path),
             query  |-> NormalizeQuery(url.query)])

\* impl TryFrom<Url> for ValidatedUrl
TryFromUrl(url) ==
    IF url.scheme # HTTP /\ url.scheme # HTTPS THEN Err("UnsupportedScheme")
    ELSE IF url.host = None THEN Err("MissingHost")
    ELSE IF url.host[1] = << >> THEN Err("MissingHost")
    ELSE CheckedUrl(url, to_lowercase(url.host[1]))

\* validate_url after Url::parse
ValidateParsed(url) == IF ~url.ok THEN Err("MalformedUrl") ELSE TryFromUrl(url)

\* a validate_url that hands the empty string to the parser
ValidateUnchecked(url_str) == ValidateParsed(UrlParse(url_str))

validate_url(url_str) ==
    IF url_str = << >> THEN Err("EmptyUrl") ELSE ValidateParsed(UrlParse(url_str))

\* one query parameter as Display writes it: a bare key when the value is empty
FormatParam(kv) == IF kv[2] = << >> THEN kv[1] ELSE kv[1] \o <<"=">> \o kv[2]

\* Vec::join("&")
RECURSIVE JoinParams(_)
JoinParams(m) ==
    IF m = << >> THEN << >>
    ELSE IF Len(m) = 1 THEN FormatParam(m[1])
    ELSE FormatParam(m[1]) \o <<"&">> \o JoinParams(Tail(m))

\* impl fmt::Display for ValidatedUrl
ValidatedUrlDisplay(v) ==
    v.scheme \o <<":", "/", "/">> \o v.host
      \o (IF v.port # None THEN <<":">> \o FormatNat(v.port[1]) ELSE << >>)
      \o v.path
      \o (IF v.query # None /\ v.query[1] # << >>
          THEN <<"?">> \o JoinParams(v.query[1]) ELSE << >>)

\* `Ok(validated_url.to_string())`, or the error of validate_url
DisplayValidated(validated_url) ==
    IF ~validated_url.ok THEN validated_url
    ELSE Ok(ValidatedUrlDisplay(validated_url.val))

normalize_url(url_str) == DisplayValidated(validate_url(url_str))

\* ------------------------------------------------------------------------
\* Inputs: the submissions a client may post
\* ------------------------------------------------------------------------

\* "https://h/p?b&a"
UrlA1 == HTTPS \o <<":", "/", "/", "h", "/", "p", "?", "b", "&", "a">>

\* "HTTPS://H:443/p/?a&b#x", the same resource as UrlA1: it differs by the
\* case of scheme and host, the default port, a trailing slash, the order of
\* the query parameters and a fragment
UrlA2 == <<"H", "T", "T", "P", "S", ":", "/", "/", "H", ":", "4", "4", "3",
           "/", "p", "/", "?", "a", "&", "b", "#", "x">>

\* "http://h/p?b=2&a=1"
UrlB == HTTP \o <<":", "/", "/", "h", "/", "p", "?", "b", "=", "2", "&", "a", "=", "1">>

\* "http://127.0.0.1", rejected as a local address
UrlLocal == HTTP \o <<":", "/", "/", "1", "2", "7", ".", "0", ".", "0", ".", "1">>

AddContentRequest(url, title, author, body) ==
    [url |-> url, title |-> title, author |-> author, body |-> body]

TitleT == Some(<<"t">>)

AuthorA == Some(<<"a">>)

BodyB == Some(<<"b">>)

BodyBlank == Some(<<" ">>)

TitleBlank == Some(<<" ">>)

Payloads ==
    { AddContentRequest(UrlA1, TitleT, AuthorA, BodyB),
      AddContentRequest(UrlA2, TitleT, AuthorA, BodyB),
      AddContentRequest(UrlA1, TitleBlank, AuthorA, BodyB),
      AddContentRequest(UrlA1, TitleT, None, BodyB),
      AddContentRequest(UrlA1, TitleT, AuthorA, BodyBlank),
      AddContentRequest(UrlB, TitleT, AuthorA, BodyB),
      AddContentRequest(UrlLocal, TitleT, AuthorA, BodyB) }

\* ------------------------------------------------------------------------
\* State
\* ------------------------------------------------------------------------

Requests == 1..MaxRequests

\* AtomicUsize arithmetic wraps around; only the wrap matters to the model,
\* so the word is scaled down to 16 bits
UsizeModulus == 65536

VARIABLES
    is_shutting_down,   \* ShutdownState.is_shutting_down
    in_flight_count,    \* ShutdownState.in_flight_count
    store,              \* the content_items table, in insertion order
    pc,                 \* where each request is in call / poll / add_content
    kind,               \* FutureKind of the request's GracefulShutdownFuture
    payload,            \* the AddContentRequest of each request
    new_content,        \* the handler's NewContentItem between lookup and insert
    result,             \* what the inner handler produced, once it has
    response,           \* what the coordinator's future returned to the caller
    signal_pc,          \* where shutdown_signal is
    shutAtCall,         \* history: is_shutting_down when call() began
    shutAtDone,         \* history: is_shutting_down when poll() returned Ready
    wrote,              \* history: the requests whose insert changed the store
    incs,               \* history: fetch_add's executed for each request
    decs,               \* history: fetch_sub's executed for each request
    drainLog,           \* history: the states in which "drained" fired
    api_call,           \* the last call of the sequential client with its response
    items               \* list's local `items` of each request, between its two queries

vars == <<is_shutting_down, in_flight_count, store, pc, kind, payload, new_content,
          result, response, signal_pc, shutAtCall, shutAtDone, wrote,
          incs, decs, drainLog, api_call, items>>

\* everything but the table and the sequential client's last call
serverVars == <<is_shutting_down, in_flight_count, pc, kind, payload, new_content, result,
                response, signal_pc, shutAtCall, shutAtDone, wrote, incs, decs, drainLog,
                items>>

coordVars == <<is_shutting_down, in_flight_count>>

storeVars == <<store, wrote>>

\* ShutdownState::new, an empty table, no request yet
Init ==
    /\ is_shutting_down = FALSE
    /\ in_flight_count = 0
    /\ store = << >>
    /\ pc = [r \in Requests |-> "idle"]
    /\ kind = [r \in Requests |-> "none"]
    /\ payload = [r \in Requests |-> None]
    /\ new_content = [r \in Requests |-> None]
    /\ result = [r \in Requests |-> None]
    /\ response = [r \in Requests |-> None]
    /\ signal_pc = "running"
    /\ shutAtCall = [r \in Requests |-> FALSE]
    /\ shutAtDone = [r \in Requests |-> FALSE]
    /\ wrote = {}
    /\ incs = [r \in Requests |-> 0]
    /\ decs = [r \in Requests |-> 0]
    /\ drainLog = << >>
    /\ api_call = None
    /\ items = [r \in Requests |-> None]

\* ------------------------------------------------------------------------
\* errors.rs, models.rs, repositories/content.rs, routes/api/v1.rs
\* ------------------------------------------------------------------------

Response(status, id, error) == [status |-> status, id |-> id, error |-> error]

\* an IntoResponse that reports every error as an internal one
into_response_internal(err) == [status |-> 500, id |-> << >>, error |-> "Internal server error"]

\* impl IntoResponse for ApiError
into_response(err) ==
    IF err \in {"EmptyUrl", "MalformedUrl", "MissingHost", "LocalAddress", "UnsupportedScheme"}
    THEN Response(400, None, err)
    ELSE IF err = "DuplicateUrlDifferentMetadata" THEN Response(409, None, err)
    ELSE Response(500, None, "Internal server error")

\* ResponseJson(ContentResponse { id })
ContentResponse(id) == Response(200, Some(id), "")

\* the coordinator's own response built with StatusCode::OK
ServiceUnavailableAsOk == [status |-> 200, id |-> << >>, error |-> ""]

\* the 503 the coordinator builds itself
ServiceUnavailable == Response(503, None, "")

\* payload.body.filter(|s| !s.trim().is_empty())
FilterBody(body) == IF body # None /\ trim(body[1]) # << >> THEN body ELSE None

\* the NewContentItem built from the result of normalize_url
ItemWithUrl(normalized_url, title, author, body) ==
    IF ~normalized_url.ok THEN normalized_url
    ELSE Ok([url |-> normalized_url.val, title |-> title, author |-> author, body |-> body])

\* NewContentItem::new that validates the url but keeps it as submitted
NewContentItemKeepsRawUrl(url, title, author, body) ==
    IF ~normalize_url(url).ok THEN normalize_url(url)
    ELSE Ok([url |-> url, title |-> title, author |-> author, body |-> body])

\* NewContentItem::new
NewContentItem(url, title, author, body) ==
    ItemWithUrl(normalize_url(url), title, author, body)

\* ContentRepository::find_by_url: the first row with that url
find_by_url(table, url) ==
    IF \E i \in 1..Len(table) : table[i].url = url
    THEN Some(table[CHOOSE i \in 1..Len(table) :
                      table[i].url = url /\ \A j \in 1..(i - 1) : table[j].url # url])
    ELSE None

\* a url column without the uniqueness constraint
UniqueViolationOff(table, url) == FALSE

\* the uniqueness constraint of the url column
UniqueViolation(table, url) == \E i \in 1..Len(table) : table[i].url = url

\* the timestamp of the newest row (the clock's start when there is none)
LastTime(table) == IF table = << >> THEN 0 ELSE table[Len(table)].created_at

\* the timestamps the store's clock may assign to the next row
NextTimes(table) == {t \in {LastTime(table), LastTime(table) + 1} : t <= MaxTime}

\* ContentRepository::create: the row the insert returns, or the store's error
create(table, content, now) ==
    IF UniqueViolation(table, content.url) THEN Err("DatabaseError")
    ELSE Ok([id |-> Len(table) + 1, url |-> content.url, title |-> content.title,
             author |-> content.author, created_at |-> now, body |-> content.body])

\* the comparison without the body (as in the handler of routes.rs)
CompareExistingNoBody(existing, content) ==
    IF existing.title # content.title \/ existing.author # content.author
    THEN Response(409, None, "DuplicateUrlDifferentMetadata")
    ELSE Response(200, Some(existing.id), "")

\* add_content, the branch `if let Some(existing) = existing_item`
CompareExisting(existing, content) ==
    IF existing.title # content.title THEN into_response("DuplicateUrlDifferentMetadata")
    ELSE IF existing.author # content.author
    THEN into_response("DuplicateUrlDifferentMetadata")
    ELSE IF existing.body # content.body THEN into_response("DuplicateUrlDifferentMetadata")
    ELSE ContentResponse(existing.id)

\* ------------------------------------------------------------------------
\* shutdown.rs: GracefulShutdownService::call
\* ------------------------------------------------------------------------

\* an increment that was left out
fetch_add_missing(count) == count

fetch_add(count) == (count + 1) % UsizeModulus

\* a decrement that was left out
fetch_sub_missing(count) == count

fetch_sub(count) == (count - 1) % UsizeModulus

\* the shutdown test inverted
CallRejectsInverted(flag) == ~flag

\* the branch `if self.state.is_shutting_down()` takes
CallRejects(flag) == flag

\* call(), up to and including the load of the flag; on a set flag the
\* immediate 503 future is built.  The request slots are interchangeable, so
\* arriving requests take them in order.
CallCheck(r) ==
    /\ pc[r] = "idle"
    /\ \A q \in Requests : q < r => pc[q] # "idle"
    /\ shutAtCall' = [shutAtCall EXCEPT ![r] = is_shutting_down]
    /\ IF CallRejects(is_shutting_down)
       THEN /\ pc' = [pc EXCEPT ![r] = "immediate"]
            /\ kind' = [kind EXCEPT ![r] = "Immediate"]
       ELSE /\ pc' = [pc EXCEPT ![r] = "accepting"]
            /\ kind' = kind
    /\ UNCHANGED <<coordVars, storeVars, payload, new_content, result, response,
                   signal_pc, shutAtDone, incs, decs, drainLog, api_call, items>>

\* call(), the else branch: fetch_add and the inner future
CallAccept(r) ==
    /\ pc[r] = "accepting"
    /\ in_flight_count' = fetch_add(in_flight_count)
    /\ incs' = [incs EXCEPT ![r] = @ + 1]
    /\ pc' = [pc EXCEPT ![r] = "inner"]
    /\ kind' = [kind EXCEPT ![r] = "Inner"]
    /\ UNCHANGED <<is_shutting_down, storeVars, payload, new_content, result, response,
                   signal_pc, shutAtCall, shutAtDone, decs, drainLog, api_call, items>>

\* ------------------------------------------------------------------------
\* the inner handler: add_content
\* ------------------------------------------------------------------------

\* add_content up to NewContentItem::new, tabulated over the submissions
ValidatedTable ==
    { [submission |-> p,
       item |-> NewContentItem(p.url, p.title, p.author, FilterBody(p.body))] :
      p \in Payloads }

\* add_content up to NewContentItem::new for the submission p
Validated(p) == (CHOOSE row \in ValidatedTable : row.submission = p).item

\* the Json extractor reads the submission p from the request, then
\* add_content up to the end of find_by_url, and the branch on its result
HandlerLookup(r, p) ==
    /\ pc[r] = "inner"
    /\ payload' = [payload EXCEPT ![r] = Some(p)]
    /\ LET nc == Validated(p)
       IN  IF ~nc.ok
           THEN /\ result' = [result EXCEPT ![r] = Some(into_response(nc.err))]
                /\ pc' = [pc EXCEPT ![r] = "ready"]
                /\ new_content' = new_content
           ELSE LET existing_item == find_by_url(store, nc.val.url) IN
                IF existing_item # None
                THEN /\ result' = [result EXCEPT
                                     ![r] = Some(CompareExisting(existing_item[1], nc.val))]
                     /\ pc' = [pc EXCEPT ![r] = "ready"]
                     /\ new_content' = new_content
                ELSE /\ new_content' = [new_content EXCEPT ![r] = Some(nc.val)]
                     /\ pc' = [pc EXCEPT ![r] = "create"]
                     /\ result' = result
    /\ UNCHANGED <<coordVars, storeVars, kind, response, signal_pc, shutAtCall,
                   shutAtDone, incs, decs, drainLog, api_call, items>>

\* add_content from content_repo.create to its return
HandlerCreate(r) ==
    /\ pc[r] = "create"
    /\ \E now \in NextTimes(store) :
         LET inserted_content == create(store, new_content[r][1], now) IN
         IF inserted_content.ok
         THEN /\ store' = Append(store, inserted_content.val)
              /\ wrote' = wrote \cup {r}
              /\ result' = [result EXCEPT ![r] = Some(ContentResponse(inserted_content.val.id))]
         ELSE /\ UNCHANGED storeVars
              /\ result' = [result EXCEPT ![r] = Some(into_response(inserted_content.err))]
    /\ pc' = [pc EXCEPT ![r] = "ready"]
    /\ UNCHANGED <<coordVars, kind, payload, new_content, response, signal_pc, shutAtCall,
                   shutAtDone, incs, decs, drainLog, api_call, items>>

\* ------------------------------------------------------------------------
\* shutdown.rs: GracefulShutdownFuture::poll, and the drop of a future
\* ------------------------------------------------------------------------

\* a poll that answers 503 itself once shutdown has begun
PollOutputUnavailable(res, flag) == IF flag THEN ServiceUnavailable ELSE res

\* what poll returns for a ready inner future
PollOutput(res, flag) == res

\* poll, arm Inner, when the inner future is ready
PollReady(r) ==
    /\ pc[r] = "ready"
    /\ in_flight_count' = fetch_sub(in_flight_count)
    /\ decs' = [decs EXCEPT ![r] = @ + 1]
    /\ response' = [response EXCEPT ![r] = Some(PollOutput(result[r][1], is_shutting_down))]
    /\ shutAtDone' = [shutAtDone EXCEPT ![r] = is_shutting_down]
    /\ pc' = [pc EXCEPT ![r] = "done"]
    /\ UNCHANGED <<is_shutting_down, storeVars, kind, payload, new_content, result,
                   signal_pc, shutAtCall, incs, drainLog, api_call, items>>

\* an Immediate arm that decrements the counter like the Inner arm
PollImmediateDecrements(r) ==
    /\ pc[r] = "immediate"
    /\ in_flight_count' = fetch_sub(in_flight_count)
    /\ response' = [response EXCEPT ![r] = Some(ServiceUnavailable)]
    /\ shutAtDone' = [shutAtDone EXCEPT ![r] = is_shutting_down]
    /\ pc' = [pc EXCEPT ![r] = "done"]
    /\ UNCHANGED <<is_shutting_down, storeVars, kind, payload, new_content, result,
                   signal_pc, shutAtCall, incs, decs, drainLog, api_call, items>>

\* poll, arm Immediate
PollImmediate(r) ==
    /\ pc[r] = "immediate"
    /\ response' = [response EXCEPT ![r] = Some(ServiceUnavailable)]
    /\ shutAtDone' = [shutAtDone EXCEPT ![r] = is_shutting_down]
    /\ pc' = [pc EXCEPT ![r] = "done"]
    /\ UNCHANGED <<coordVars, storeVars, kind, payload, new_content, result, signal_pc,
                   shutAtCall, incs, decs, drainLog, api_call, items>>

\* the caller drops the future before it returned Ready (the client went
\* away): GracefulShutdownFuture has no Drop implementation, its fields are
\* just released
DropFuture(r) ==
    /\ pc[r] \in {"immediate", "inner"}
    /\ pc' = [pc EXCEPT ![r] = "dropped"]
    /\ UNCHANGED <<coordVars, storeVars, kind, payload, new_content, result, response,
                   signal_pc, shutAtCall, shutAtDone, incs, decs, drainLog, api_call, items>>

\* ------------------------------------------------------------------------
\* main.rs: shutdown_signal
\* ------------------------------------------------------------------------

\* the requests whose inner handler is running
Running == {r \in Requests : pc[r] \in {"inner", "create", "ready"}}

\* a start_shutdown that stores nothing
start_shutdown_noop(flag) == flag

\* ShutdownState::start_shutdown: is_shutting_down.store(true)
start_shutdown(flag) == TRUE

\* a signal handler that may run again and flips the flag each time
StartShutdownToggles ==
    /\ signal_pc \in {"running", "awaiting"}
    /\ is_shutting_down' = ~is_shutting_down
    /\ signal_pc' = "awaiting"
    /\ UNCHANGED <<in_flight_count, storeVars, pc, kind, payload, new_content, result,
                   response, shutAtCall, shutAtDone, incs, decs, drainLog, api_call, items>>

\* the signal arrives: completed() is taken and start_shutdown() stores the flag
StartShutdown ==
    /\ signal_pc = "running"
    /\ is_shutting_down' = start_shutdown(is_shutting_down)
    /\ signal_pc' = "awaiting"
    /\ UNCHANGED <<in_flight_count, storeVars, pc, kind, payload, new_content, result,
                   response, shutAtCall, shutAtDone, incs, decs, drainLog, api_call, items>>

\* ShutdownState::completed: ready once shutdown has begun and nothing is in flight
completed(flag, count) == flag /\ count = 0

\* shutdown_completed.await returns
Drained ==
    /\ signal_pc = "awaiting"
    /\ completed(is_shutting_down, in_flight_count)
    /\ signal_pc' = "drained"
    /\ drainLog' = Append(drainLog, [flag |-> is_shutting_down, count |-> in_flight_count,
                                     running |-> Running])
    /\ UNCHANGED <<coordVars, storeVars, pc, kind, payload, new_content, result, response,
                   shutAtCall, shutAtDone, incs, decs, api_call, items>>

\* ------------------------------------------------------------------------
\* Specification
\* ------------------------------------------------------------------------

Next ==
    \/ \E r \in Requests : CallCheck(r)
    \/ \E r \in Requests : CallAccept(r)
    \/ \E r \in Requests : \E p \in Payloads : HandlerLookup(r, p)
    \/ \E r \in Requests : HandlerCreate(r)
    \/ \E r \in Requests : PollReady(r)
    \/ \E r \in Requests : PollImmediate(r)
    \/ \E r \in Requests : DropFuture(r)
    \/ StartShutdown
    \/ Drained

Spec == Init /\ [][Next]_vars

TypeOK ==
    /\ is_shutting_down \in BOOLEAN
    /\ in_flight_count \in 0..(UsizeModulus - 1)
    /\ \A r \in Requests :
         pc[r] \in {"idle", "accepting", "immediate", "inner", "create", "ready",
                    "done", "dropped"}
    /\ signal_pc \in {"running", "awaiting", "drained"}

\* the server keeps running: a call() that has loaded the flag goes on to
\* fetch_add, the store answers an insert, a ready future is polled, and the
\* drained wait is resumed.  When a submission is read depends on the client,
\* so no fairness is assumed of HandlerLookup.
FairSpec ==
    /\ Spec
    /\ \A r \in Requests : WF_vars(CallAccept(r))
    /\ \A r \in Requests : WF_vars(HandlerCreate(r))
    /\ \A r \in Requests : WF_vars(PollReady(r))
    /\ \A r \in Requests : WF_vars(PollImmediate(r))
    /\ WF_vars(Drained)

\* ------------------------------------------------------------------------
\* routes/api/v1.rs and repositories/content.rs: list_content, get_content_by_id
\* ------------------------------------------------------------------------

DefaultLimit == 50

MaxLimit == 1000

Min(a, b) == IF a < b THEN a ELSE b

\* DateTime::parse_from_rfc3339(..).naive_utc(), with instants written as
\* decimal tick counts: anything else does not parse
parse_from_rfc3339(text) ==
    IF text # << >> /\ \A i \in 1..Len(text) : IsDigit(text[i])
    THEN Ok(ParseNat(text)) ELSE Err("ParseError")

\* the `if let Some(since_str) = &query.since { Some(parse..?) } else { None }`
ParseBound(bound) ==
    IF bound = None THEN Ok(None)
    ELSE IF parse_from_rfc3339(bound[1]).ok THEN Ok(Some(parse_from_rfc3339(bound[1]).val))
    ELSE Err("BadRequest")

\* ApiError::BadRequest(message) as a response
BadRequest(message) == Response(400, None, message)

\* ApiError::NotFound as a response
NotFound == Response(404, None, "NotFound")

\* a page size without the upper bound
EffectiveLimitUnclamped(limit) == IF limit = None THEN DefaultLimit ELSE limit[1]

\* params.limit.unwrap_or(50).min(1000)
EffectiveLimit(limit) == Min(IF limit = None THEN DefaultLimit ELSE limit[1], MaxLimit)

\* filters that leave out the rows created at the bounds themselves
InRangeExclusive(row, since, until) ==
    /\ since # None => row.created_at > since[1]
    /\ until # None => row.created_at < until[1]

\* the two filters on created_at
InRange(row, since, until) ==
    /\ since # None => row.created_at >= since[1]
    /\ until # None => row.created_at <= until[1]

\* the rows WHERE selects, in the order of the table
FilterRows(table, since, until) ==
    SelectSeq(table, LAMBDA row : InRange(row, since, until))

\* an order that breaks ties of created_at by ascending id
RowBeforeTiesAscending(a, b) ==
    \/ a.created_at > b.created_at
    \/ a.created_at = b.created_at /\ a.id < b.id

\* order((created_at.desc(), id.desc())): row a is returned before row b
RowBefore(a, b) ==
    \/ a.created_at > b.created_at
    \/ a.created_at = b.created_at /\ a.id > b.id

\* ORDER BY created_at DESC, id DESC
OrderRows(rows) == SortSeq(rows, RowBefore)

\* an OFFSET that skips nothing
SkipNothing(rows, n) == rows

\* OFFSET n
Skip(rows, n) == SubSeq(rows, Min(n, Len(rows)) + 1, Len(rows))

\* a LIMIT that lets one row more through
TakeOneMore(rows, n) == SubSeq(rows, 1, Min(n + 1, Len(rows)))

\* LIMIT n
Take(rows, n) == SubSeq(rows, 1, Min(n, Len(rows)))

\* `if let Some(offset) = params.offset { query.offset(offset) }`
SkipOffset(rows, offset) == IF offset = None THEN rows ELSE Skip(rows, offset[1])

\* a list whose total counts the rows of the page it returns
ListTotalOfPage(table, params) ==
    [items |-> Take(SkipOffset(OrderRows(FilterRows(table, params.since, params.until)),
                               params.offset),
                    EffectiveLimit(params.limit)),
     total |-> Len(Take(SkipOffset(OrderRows(FilterRows(table, params.since,
                                                        params.until)),
                                   params.offset),
                        EffectiveLimit(params.limit)))]

\* ContentRepository::list
list(table, params) ==
    [items |-> Take(SkipOffset(OrderRows(FilterRows(table, params.since, params.until)),
                               params.offset),
                    EffectiveLimit(params.limit)),
     total |-> Len(FilterRows(table, params.since, params.until))]

ListContentParams(limit, offset, since, until) ==
    [limit |-> limit, offset |-> offset, since |-> since, until |-> until]

ContentSummary(item) ==
    [id |-> item.id, url |-> item.url, title |-> item.title, author |-> item.author,
     created_at |-> item.created_at]

\* a response that reports the limit list applied
ListContentResponseClamped(list_result, limit) ==
    [status |-> 200,
     items |-> [i \in 1..Len(list_result.items) |-> ContentSummary(list_result.items[i])],
     total |-> list_result.total,
     limit |-> EffectiveLimit(limit)]

\* ListContentResponse { items, total, limit: params.limit.unwrap_or(50) }
ListContentResponse(list_result, limit) ==
    [status |-> 200,
     items |-> [i \in 1..Len(list_result.items) |-> ContentSummary(list_result.items[i])],
     total |-> list_result.total,
     limit |-> IF limit = None THEN DefaultLimit ELSE limit[1]]

\* list_content once since and until have been parsed
ListParsed(table, query, since, until) ==
    IF ~since.ok
    THEN BadRequest("Invalid 'since' datetime format. Use RFC3339 format.")
    ELSE IF ~until.ok
    THEN BadRequest("Invalid 'until' datetime format. Use RFC3339 format.")
    ELSE IF query.limit # None /\ query.limit[1] = 0
    THEN BadRequest("Limit must be greater than 0")
    ELSE ListContentResponse(
             list(table, ListContentParams(query.limit, query.offset, since.val, until.val)),
             query.limit)

\* the handler list_content
list_content(table, query) ==
    ListParsed(table, query, ParseBound(query.since), ParseBound(query.until))

\* a lookup that returns the first row whatever the id is
FindFirstRow(table, id) == IF table # << >> THEN Some(table[1]) ELSE None

\* ContentRepository::find_by_id
find_by_id(table, id) ==
    IF \E i \in 1..Len(table) : table[i].id = id
    THEN Some(table[CHOOSE i \in 1..Len(table) : table[i].id = id])
    ELSE None

\* get_content_by_id, the match on the row found
ItemOrNotFound(content) ==
    IF content # None THEN [status |-> 200, item |-> content[1]] ELSE NotFound

\* the handler get_content_by_id
get_content_by_id(table, id) == ItemOrNotFound(find_by_id(table, id))

\* ------------------------------------------------------------------------
\* One client that calls the router's handlers one after the other
\* ------------------------------------------------------------------------

\* "http://h/c"
UrlC == HTTP \o <<":", "/", "/", "h", "/", "c">>

\* the submissions of the sequential client: a third resource besides the others
Submissions == Payloads \cup {AddContentRequest(UrlC, TitleT, AuthorA, BodyB)}

ListContentQuery(limit, offset, since, until) ==
    [limit |-> limit, offset |-> offset, since |-> since, until |-> until]

\* the list queries of the sequential client
Queries ==
    { ListContentQuery(None, None, None, None),
      ListContentQuery(Some(1), None, None, None),
      ListContentQuery(Some(2), Some(1), None, None),
      ListContentQuery(Some(0), None, None, None),
      ListContentQuery(None, None, Some(<<"1">>), None),
      ListContentQuery(None, None, None, Some(<<"0">>)),
      ListContentQuery(None, None, Some(<<"0">>), Some(<<"1">>)),
      ListContentQuery(None, None, Some(<<"x">>), None) }

\* the ids the sequential client asks for: those stored, and one on either side
Ids(table) == 0..(Len(table) + 1)

\* what a call of the sequential client did: the table after it and its response
Outcome(table, reply) == [table |-> table, response |-> reply]

\* an insert branch that overwrites the row found when its metadata differs
AddValidUpsert(table, item, existing, now) ==
    IF existing = << >>
    THEN Outcome(Append(table, [id |-> Len(table) + 1, url |-> item.url,
                                title |-> item.title, author |-> item.author,
                                created_at |-> now, body |-> item.body]),
                 [status |-> 200, id |-> <<Len(table) + 1>>, error |-> ""])
    ELSE Outcome([i \in 1..Len(table) |->
                    IF table[i].id = existing[1].id
                    THEN [table[i] EXCEPT !.title = item.title, !.author = item.author,
                                          !.body = item.body]
                    ELSE table[i]],
                 [status |-> 200, id |-> <<existing[1].id>>, error |-> ""])

\* add_content from content_repo.create on
AddCreated(table, inserted_content) ==
    IF inserted_content.ok
    THEN Outcome(Append(table, inserted_content.val),
                 ContentResponse(inserted_content.val.id))
    ELSE Outcome(table, into_response(inserted_content.err))

\* add_content from the branch on existing_item on
AddValid(table, item, existing, now) ==
    IF existing # None THEN Outcome(table, CompareExisting(existing[1], item))
    ELSE AddCreated(table, create(table, item, now))

\* add_content run from its first line to its return with nothing in between
add_content(table, new_content_item, now) ==
    IF ~new_content_item.ok THEN Outcome(table, into_response(new_content_item.err))
    ELSE AddValid(table, new_content_item.val,
                  find_by_url(table, new_content_item.val.url), now)

\* the store and the client's record after one call
Called(op, arg, outcome) ==
    /\ store' = outcome.table
    /\ api_call' = Some([op |-> op, arg |-> arg, response |-> outcome.response])

\* POST /api/v1/content
AddContent(p) ==
    /\ \E now \in NextTimes(store) :
         Called("add", p,
                add_content(store,
                            NewContentItem(p.url, p.title, p.author, FilterBody(p.body)),
                            now))
    /\ UNCHANGED serverVars

\* GET /api/v1/content
ListContent(query) ==
    /\ Called("list", query, Outcome(store, list_content(store, query)))
    /\ UNCHANGED serverVars

\* GET /api/v1/content/{id}
GetContentById(id) ==
    /\ Called("get", id, Outcome(store, get_content_by_id(store, id)))
    /\ UNCHANGED serverVars

ApiNext ==
    \/ \E p \in Submissions : AddContent(p)
    \/ \E query \in Queries : ListContent(query)
    \/ \E id \in Ids(store) : GetContentById(id)

ApiSpec == Init /\ [][ApiNext]_vars

\* ------------------------------------------------------------------------
\* GET /api/v1/content from the query string on, against tables of more rows
\* than a page may hold
\* ------------------------------------------------------------------------

\* u32::MAX, 4294967295, in decimal
U32MaxText == <<"4", "2", "9", "4", "9", "6", "7", "2", "9", "5">>

\* str::parse::<u32>, as the Query extractor applies it to limit and offset
ParseU32(text) ==
    IF text = << >> \/ \E i \in 1..Len(text) : ~IsDigit(text[i]) THEN Err("ParseIntError")
    ELSE IF Len(text) > 10 \/ (Len(text) = 10 /\ StrLt(U32MaxText, text))
    THEN Err("ParseIntError")
    ELSE Ok(ParseNat(text))

\* an optional number of the query string
ParseOptionU32(text) ==
    IF text = None THEN Ok(None)
    ELSE IF ParseU32(text[1]).ok THEN Ok(Some(ParseU32(text[1]).val))
    ELSE ParseU32(text[1])

\* the rejection of the Query extractor, as a response
QueryRejection == Response(400, None, "Failed to deserialize query string")

\* the query string of a list request: each parameter absent or a text
RawListQuery(limit, offset, since, until) ==
    [limit |-> limit, offset |-> offset, since |-> since, until |-> until]

\* the route once limit and offset have been parsed
ListExtracted(table, raw, limit, offset) ==
    IF ~limit.ok \/ ~offset.ok THEN QueryRejection
    ELSE list_content(table, ListContentQuery(limit.val, offset.val, raw.since, raw.until))

\* Query(query): Query<ListContentQuery>, then the handler list_content
list_content_route(table, raw) ==
    ListExtracted(table, raw, ParseOptionU32(raw.limit), ParseOptionU32(raw.offset))

\* "https://h/<i>", the canonical url of the i-th resource of a large table
BulkUrl(i) == HTTPS \o <<":", "/", "/", "h", "/">> \o FormatNat(i)

\* the table after n resources were ingested one after the other, the later
\* half at the latest instant
BulkTable(n) ==
    [i \in 1..n |->
       [id |-> i, url |-> BulkUrl(i), title |-> None, author |-> None,
        created_at |-> IF 2 * i > n THEN MaxTime ELSE 0, body |-> None]]

\* the sizes of the tables: empty, around the default page and around the
\* largest page
BulkSizes == {0, 1, 2, DefaultLimit, DefaultLimit + 1, MaxLimit, MaxLimit + 2}

\* the limits of the query strings: absent, zero, negative, not a number,
\* around the default page and around the largest page
RawLimits ==
    {None} \cup { Some(text) : text \in { <<"0">>, <<"-", "1">>, <<"x">>, <<"1">>,
                                           <<"5", "1">>, <<"1", "0", "0", "0">>,
                                           <<"1", "0", "0", "1">> } }

RawOffsets == {None, Some(<<"2">>)}

RawQueries ==
    { RawListQuery(limit, offset, None, None) : limit \in RawLimits, offset \in RawOffsets }

\* a server that starts on a table that earlier runs have filled
PageInit ==
    /\ is_shutting_down = FALSE
    /\ in_flight_count = 0
    /\ store \in {BulkTable(n) : n \in BulkSizes}
    /\ pc = [r \in Requests |-> "idle"]
    /\ kind = [r \in Requests |-> "none"]
    /\ payload = [r \in Requests |-> None]
    /\ new_content = [r \in Requests |-> None]
    /\ result = [r \in Requests |-> None]
    /\ response = [r \in Requests |-> None]
    /\ signal_pc = "running"
    /\ shutAtCall = [r \in Requests |-> FALSE]
    /\ shutAtDone = [r \in Requests |-> FALSE]
    /\ wrote = {}
    /\ incs = [r \in Requests |-> 0]
    /\ decs = [r \in Requests |-> 0]
    /\ drainLog = << >>
    /\ api_call = None
    /\ items = [r \in Requests |-> None]

\* GET /api/v1/content?limit=..&offset=..
ListContentRaw(raw) ==
    /\ Called("list", raw, Outcome(store, list_content_route(store, raw)))
    /\ UNCHANGED serverVars

PageNext == \E raw \in RawQueries : ListContentRaw(raw)

PageSpec == PageInit /\ [][PageNext]_vars

\* ------------------------------------------------------------------------
\* validation.rs called on its own: normalize_url on a url, and again on
\* the canonical url it returned
\* ------------------------------------------------------------------------

\* the parts the urls are put together from
SchemeTexts == {HTTP, <<"H", "T", "T", "P", "S">>, FTP}

HostTexts ==
    { <<"h">>, <<"H">>,
      <<"L", "o", "c", "a", "l", "h", "o", "s", "t">>,
      <<"1", "0", ".", "0", ".", "0", ".", "1">> }

PortTexts == { << >>, <<":", "8", "0">>, <<":", "4", "4", "3">>, <<":", "8", "0", "8", "0">> }

PathTexts == { << >>, <<"/">>, <<"/", "p">>, <<"/", "p", "/">>, <<"/", "p", "/", "/">> }

\* the key/value pieces of the query strings: a pair, a pair of another key,
\* a bare key, a second value of the first key, and a value with an encoded '&'
PieceTexts ==
    { <<"b", "=", "1">>, <<"a", "=", "2">>, <<"c">>, <<"b", "=", "3">>,
      <<"d", "=", "1", "%", "2", "6", "a">> }

\* no query, an empty query, and every query of one or two different pieces
QueryTexts ==
    { << >>, <<"?">> }
      \cup { <<"?">> \o x : x \in PieceTexts }
      \cup { <<"?">> \o xy[1] \o <<"&">> \o xy[2] :
               xy \in { pq \in PieceTexts \X PieceTexts : pq[1] # pq[2] } }

\* three pieces of different keys
KeyTexts == { <<"b", "=", "1">>, <<"a", "=", "2">>, <<"c">> }

\* urls of three different keys, in every order of the keys
ThreeKeyUrls ==
    { HTTPS \o <<":", "/", "/", "h", "/", "p", "?">>
        \o xyz[1] \o <<"&">> \o xyz[2] \o <<"&">> \o xyz[3] :
        xyz \in { pqr \in KeyTexts \X KeyTexts \X KeyTexts :
                    pqr[1] # pqr[2] /\ pqr[1] # pqr[3] /\ pqr[2] # pqr[3] } }

FragmentTexts == { << >>, <<"#", "x">> }

\* urls without authority, text that is no url, and a url without host
OtherUrls ==
    { << >>,
      <<"j", "a", "v", "a", "s", "c", "r", "i", "p", "t", ":", "x">>,
      <<"d", "a", "t", "a", ":", "x">>,
      <<"x">>,
      <<"h", "t", "t", "p", "s", ":", "/", "/">>,
      <<"h", "t", "t", "p", ":", "/", "/", "1", "2", "7", ".", "0", ".", "0", ".", "1">>,
      <<"h", "t", "t", "p", ":", "/", "/", "1", "9", "2", ".", "1", "6", "8", ".", "0", ".", "1">>,
      <<"f", "t", "p", ":", "/", "/", "l", "o", "c", "a", "l", "h", "o", "s", "t">> }

\* the urls normalize_url is called on
UrlInputs ==
    { scheme \o <<":", "/", "/">> \o host \o port \o path \o query \o fragment :
        scheme \in SchemeTexts, host \in HostTexts, port \in PortTexts,
        path \in PathTexts, query \in QueryTexts, fragment \in FragmentTexts }
      \cup ThreeKeyUrls \cup OtherUrls

\* a caller that holds a url and has not called yet
UrlInit ==
    /\ is_shutting_down = FALSE
    /\ in_flight_count = 0
    /\ store = << >>
    /\ pc = [r \in Requests |-> "idle"]
    /\ kind = [r \in Requests |-> "none"]
    /\ payload = [r \in Requests |-> None]
    /\ new_content = [r \in Requests |-> None]
    /\ result = [r \in Requests |-> None]
    /\ response = [r \in Requests |-> None]
    /\ signal_pc = "running"
    /\ shutAtCall = [r \in Requests |-> FALSE]
    /\ shutAtDone = [r \in Requests |-> FALSE]
    /\ wrote = {}
    /\ incs = [r \in Requests |-> 0]
    /\ decs = [r \in Requests |-> 0]
    /\ drainLog = << >>
    /\ api_call \in { Some([op |-> "url", arg |-> u, response |-> None]) : u \in UrlInputs }
    /\ items = [r \in Requests |-> None]

\* normalize_url(url)
NormalizeUrl ==
    /\ api_call[1].op = "url"
    /\ api_call' = Some([op |-> "normalize_url", arg |-> api_call[1].arg,
                         response |-> normalize_url(api_call[1].arg)])
    /\ UNCHANGED <<store, serverVars>>

\* normalize_url(canonical), for the canonical url the last call returned
NormalizeAgain ==
    /\ api_call[1].op = "normalize_url"
    /\ api_call[1].response.ok
    /\ api_call' = Some([op |-> "normalize_url", arg |-> api_call[1].response.val,
                         response |-> normalize_url(api_call[1].response.val)])
    /\ UNCHANGED <<store, serverVars>>

UrlNext == NormalizeUrl \/ NormalizeAgain

UrlSpec == UrlInit /\ [][UrlNext]_vars

\* ------------------------------------------------------------------------
\* add_content and list_content of several accepted requests on the threads
\* of the runtime; every method of SqliteContentRepository takes the Mutex
\* of the connection
\* ------------------------------------------------------------------------

\* list, the page query: the filters, the offset, the order and the limit
ListItems(table, params) ==
    Take(SkipOffset(OrderRows(FilterRows(table, params.since, params.until)),
                    params.offset),
         EffectiveLimit(params.limit))

\* list, the count query: the same filters
ListTotal(table, params) == Len(FilterRows(table, params.since, params.until))

\* list_content before repo.list: the reply to a query it refuses
ListRefusal(query, since, until) ==
    IF ~since.ok
    THEN Some(BadRequest("Invalid 'since' datetime format. Use RFC3339 format."))
    ELSE IF ~until.ok
    THEN Some(BadRequest("Invalid 'until' datetime format. Use RFC3339 format."))
    ELSE IF query.limit # None /\ query.limit[1] = 0
    THEN Some(BadRequest("Limit must be greater than 0"))
    ELSE None

\* the ListContentParams that list_content builds from the query
ParamsOf(query) ==
    ListContentParams(query.limit, query.offset,
                      ParseBound(query.since).val, ParseBound(query.until).val)

\* a guard that list lets go of as soon as it has taken it
ReleasedAtOnce(positions) == FALSE

\* the MutexGuard `conn` of list, alive from self.db.lock() to the return of
\* list; find_by_url and create hold theirs for one query only
DbHeld(positions) == \E r \in DOMAIN positions : positions[r] = "count"

\* the list queries of the concurrent clients
ConcurrentQueries ==
    { ListContentQuery(None, None, None, None),
      ListContentQuery(Some(1), Some(0), None, None),
      ListContentQuery(Some(2), None, Some(<<"0">>), None),
      ListContentQuery(Some(0), None, None, None) }

\* every request has been accepted by call() and its inner handler starts
LockInit ==
    /\ is_shutting_down = FALSE
    /\ in_flight_count = MaxRequests
    /\ store = << >>
    /\ pc = [r \in Requests |-> "inner"]
    /\ kind = [r \in Requests |-> "Inner"]
    /\ payload = [r \in Requests |-> None]
    /\ new_content = [r \in Requests |-> None]
    /\ result = [r \in Requests |-> None]
    /\ response = [r \in Requests |-> None]
    /\ signal_pc = "running"
    /\ shutAtCall = [r \in Requests |-> FALSE]
    /\ shutAtDone = [r \in Requests |-> FALSE]
    /\ wrote = {}
    /\ incs = [r \in Requests |-> 1]
    /\ decs = [r \in Requests |-> 0]
    /\ drainLog = << >>
    /\ api_call = None
    /\ items = [r \in Requests |-> None]

\* add_content up to the end of find_by_url, whose lock() waits for the guard
LockedLookup(r, p) == ~DbHeld(pc) /\ HandlerLookup(r, p)

\* add_content from content_repo.create on, whose lock() waits for the guard
LockedCreate(r) == ~DbHeld(pc) /\ HandlerCreate(r)

\* the Query extractor reads the query, then list_content up to the end of
\* the page query of list, which keeps the guard
ListPage(r, query) ==
    /\ pc[r] = "inner"
    /\ ~DbHeld(pc)
    /\ payload' = [payload EXCEPT ![r] = Some(query)]
    /\ LET refusal == ListRefusal(query, ParseBound(query.since), ParseBound(query.until))
       IN  IF refusal # None
           THEN /\ result' = [result EXCEPT ![r] = Some(refusal[1])]
                /\ pc' = [pc EXCEPT ![r] = "ready"]
                /\ items' = items
           ELSE /\ items' = [items EXCEPT ![r] = Some(ListItems(store, ParamsOf(query)))]
                /\ pc' = [pc EXCEPT ![r] = "count"]
                /\ result' = result
    /\ UNCHANGED <<coordVars, storeVars, kind, new_content, response, signal_pc,
                   shutAtCall, shutAtDone, incs, decs, drainLog, api_call>>

\* list from the count query to its return, where the guard is dropped, and
\* list_content to its return
ListCount(r) ==
    /\ pc[r] = "count"
    /\ result' = [result EXCEPT
                    ![r] = Some(ListContentResponse(
                                    [items |-> items[r][1],
                                     total |-> ListTotal(store, ParamsOf(payload[r][1]))],
                                    payload[r][1].limit))]
    /\ items' = [items EXCEPT ![r] = None]
    /\ pc' = [pc EXCEPT ![r] = "ready"]
    /\ UNCHANGED <<coordVars, storeVars, kind, payload, new_content, response, signal_pc,
                   shutAtCall, shutAtDone, incs, decs, drainLog, api_call>>

LockNext ==
    \/ \E r \in Requests : \E p \in Payloads : LockedLookup(r, p)
    \/ \E r \in Requests : LockedCreate(r)
    \/ \E r \in Requests : \E query \in ConcurrentQueries : ListPage(r, query)
    \/ \E r \in Requests : ListCount(r)
    \/ \E r \in Requests : PollReady(r)

LockSpec == LockInit /\ [][LockNext]_vars

\* ------------------------------------------------------------------------
\* Properties
\* ------------------------------------------------------------------------

\* the step of request r is its handler's lookup (with the branch on it)
IsLookupStep(r) == pc[r] = "inner" /\ pc'[r] \in {"create", "ready"}

\* the inner handler of request r returned an id
Succeeded(r) == result[r] # None /\ result[r][1].status = 200

\* the rows of a table with the given url
RowsWithUrl(table, url) == {i \in 1..Len(table) : table[i].url = url}

\* the body of a submission as the ingestion engine takes it: blank is absent
SubmittedBody(p) ==
    IF p.body = None \/ \A i \in 1..Len(p.body[1]) : p.body[1][i] = " "
    THEN None ELSE p.body

\* C1: once an ingest has returned id i, every later ingest (one whose lookup
\* comes after that return) of a url with the same canonical string and with
\* equal title, author and body returns the same id i, writes nothing, and the
\* store holds exactly one row for that canonical url.
C1_IdempotentIngest ==
    [][\A r \in Requests : \A q \in Requests \ {r} :
         ( /\ IsLookupStep(r)
           /\ Succeeded(q)
           /\ normalize_url(payload'[r][1].url) = normalize_url(payload[q][1].url)
           /\ payload'[r][1].title = payload[q][1].title
           /\ payload'[r][1].author = payload[q][1].author
           /\ payload'[r][1].body = payload[q][1].body )
         => ( /\ pc'[r] = "ready"
              /\ result'[r] = result[q]
              /\ store' = store
              /\ r \notin wrote'
              /\ Cardinality(RowsWithUrl(store',
                                         normalize_url(payload[q][1].url).val)) = 1 )]_vars

\* witness of C1: a request created the row, and a submission of another raw
\* url with the same metadata was answered with the same id without writing
C1_Witness ==
    \E q \in Requests : \E r \in Requests \ {q} :
        /\ q \in wrote /\ Succeeded(q)
        /\ r \notin wrote /\ pc[r] = "done" /\ response[r] = result[q]
        /\ payload[r][1].url # payload[q][1].url
        /\ payload[r][1].title = payload[q][1].title
        /\ payload[r][1].author = payload[q][1].author
        /\ payload[r][1].body = payload[q][1].body

C3_RejectedWhileShuttingDown ==
    \A r \in Requests :
        (pc[r] # "idle" /\ shutAtCall[r])
        => /\ pc[r] \in {"immediate", "done", "dropped"}
           /\ kind[r] = "Immediate"
           /\ payload[r] = None /\ new_content[r] = None /\ result[r] = None
           /\ incs[r] = 0 /\ decs[r] = 0
           /\ pc[r] = "done" => response[r] = Some(Response(503, None, ""))

\* witness of C3: a request was answered 503 while another one is in flight
\* and counted
C3_Witness ==
    \E r \in Requests : \E q \in Requests :
        /\ shutAtCall[r] /\ pc[r] = "done" /\ response[r][1].status = 503
        /\ pc[q] \in {"inner", "create", "ready"} /\ in_flight_count = 1

\* the inner handler of r was started (call() took the else branch to its end)
Accepted(r) == kind[r] = "Inner"

\* the inner future of r returned Ready to poll
Completed(r) == kind[r] = "Inner" /\ pc[r] = "done"

\* C4: in_flight_count is the number of accepted requests whose inner handler
\* has not completed; each accepted request was counted up once, each completed
\* one counted down once, nothing else is counted, and the counter never wraps
\* below zero.
C4_InFlightCounts ==
    /\ in_flight_count = Cardinality({r \in Requests : Accepted(r) /\ ~Completed(r)})
    /\ in_flight_count <= MaxRequests
    /\ \A r \in Requests :
         /\ incs[r] = (IF Accepted(r) THEN 1 ELSE 0)
         /\ decs[r] = (IF Completed(r) THEN 1 ELSE 0)

\* witness of C4: during shutdown one accepted request has completed, one is
\* still running, and the counter is 1
C4_Witness ==
    \E r \in Requests : \E q \in Requests :
        /\ Completed(r) /\ Accepted(q) /\ pc[q] = "ready"
        /\ is_shutting_down /\ in_flight_count = 1

\* C5: no request is accepted (counted and handed to the inner handler) in a
\* state in which is_shutting_down is already set.
C5_AcceptAtomicWithFlag ==
    [][\A r \in Requests :
         (pc[r] = "accepting" /\ pc'[r] = "inner") => ~is_shutting_down]_vars

\* C6: a request whose call() begins after start_shutdown has returned is
\* answered 503 and is never reported successful.
C6_PostShutdownUnavailable ==
    \A r \in Requests :
        (shutAtCall[r] /\ pc[r] = "done")
        => /\ response[r] # None
           /\ response[r][1].status = 503
           /\ response[r][1].id = None
           /\ r \notin wrote

\* witness of C6: a pre-shutdown request answered 200 and a post-shutdown
\* request answered 503
C6_Witness ==
    \E r \in Requests : \E q \in Requests :
        /\ pc[r] = "done" /\ ~shutAtCall[r] /\ response[r][1].status = 200
        /\ pc[q] = "done" /\ shutAtCall[q] /\ response[q][1].status = 503

\* C7: an accepted request completes with exactly what its inner handler
\* produced, also when start_shutdown happened while it was in flight.
C7_InnerResultUnchanged ==
    \A r \in Requests :
        (pc[r] = "done" /\ Accepted(r)) => response[r] = result[r] /\ result[r] # None

\* witness of C7: accepted before the signal, completed after it, answered 200
C7_Witness ==
    \E r \in Requests :
        /\ pc[r] = "done" /\ Accepted(r) /\ ~shutAtCall[r] /\ shutAtDone[r]
        /\ response[r][1].status = 200

\* C8: an accepted request whose future is dropped before it returned Ready
\* is still counted down once: per request as many fetch_sub's as fetch_add's.
C8_DropDecrements ==
    \A r \in Requests : pc[r] \in {"done", "dropped"} => decs[r] = incs[r]

\* no accepted request has been cancelled by its caller
NoneCancelled == \A r \in Requests : ~(pc[r] = "dropped" /\ Accepted(r))

\* the inner handler of r has been started and has not finished its work
HandlerPending(r) == pc[r] \in {"inner", "create"}

\* every inner handler eventually completes: none stays pending for ever and
\* none is cancelled
HandlersComplete ==
    /\ \A r \in Requests : <>[](~HandlerPending(r))
    /\ []NoneCancelled

\* C9: when every inner handler eventually completes, in_flight_count
\* eventually is 0 and stays 0.
C9_EventuallyZero == HandlersComplete => <>[](in_flight_count = 0)

\* witness of C9: all requests have settled, accepted ones among them, after
\* the shutdown signal, and the counter is back at 0
C9_Witness ==
    /\ \A r \in Requests : pc[r] = "done"
    /\ \E r \in Requests : Accepted(r) /\ shutAtDone[r]
    /\ \E r \in Requests : ~Accepted(r)
    /\ in_flight_count = 0

\* C10: drained fires at most once, only with is_shutting_down set and
\* in_flight_count 0, and never while an accepted request is still running.
C10_DrainedOnlyWhenIdle ==
    /\ Len(drainLog) <= 1
    /\ (signal_pc = "drained") = (Len(drainLog) = 1)
    /\ \A i \in 1..Len(drainLog) :
         /\ drainLog[i].flag
         /\ drainLog[i].count = 0
         /\ drainLog[i].running = {}

\* witness of C10: drained fired after an accepted request that was in flight
\* at the signal had completed
C10_Witness ==
    /\ signal_pc = "drained"
    /\ \E r \in Requests : Completed(r) /\ ~shutAtCall[r] /\ shutAtDone[r]

\* C11: when every inner handler eventually completes, a shutdown_signal that
\* is waiting for "drained" is eventually released, whether requests were in
\* flight at the signal or none was: the wait does not last for ever, and
\* what ends it is "drained".
C11_DrainedEventually ==
    /\ HandlersComplete => <>[](signal_pc # "awaiting")
    /\ [][signal_pc = "awaiting" => signal_pc' \in {"awaiting", "drained"}]_vars

\* witness of C11: the wait was released after requests that completed before
\* the signal and requests that completed after it
C11_Witness ==
    /\ signal_pc = "drained"
    /\ \E r \in Requests : Completed(r) /\ shutAtDone[r]
    /\ \E r \in Requests : Completed(r) /\ ~shutAtDone[r]

\* C12: is_shutting_down starts false, is false exactly until the signal, and
\* no step of a request, of a completion or of the signal handler clears it.
C12_FlagMonotonic ==
    /\ ~is_shutting_down
    /\ [][is_shutting_down => is_shutting_down']_vars
    /\ [](is_shutting_down <=> signal_pc # "running")

\* witness of C12: the flag is still set after the signal, after a request
\* that arrived later and after the completion of one accepted earlier
C12_Witness ==
    /\ is_shutting_down
    /\ \E r \in Requests : pc[r] = "done" /\ shutAtCall[r]
    /\ \E r \in Requests : Completed(r) /\ ~shutAtCall[r] /\ shutAtDone[r]
    /\ signal_pc = "awaiting"

\* the handler of r found no row for its url and went on to the insert
WentToCreate(r) == new_content[r] # None

\* r and q both looked their url up before either had inserted it
Raced(r, q) ==
    /\ WentToCreate(r) /\ WentToCreate(q)
    /\ new_content[r][1].url = new_content[q][1].url
    /\ result[r] # None /\ result[q] # None

\* C13: no two rows of the table have the same url, in every reachable state.
C13_UniqueCanonicalUrl ==
    \A i \in 1..Len(store) : \A j \in 1..Len(store) :
        i # j => store[i].url # store[j].url

\* witness of C13: two requests raced to insert the same url and only one of
\* the inserts changed the table
C13_Witness ==
    \E r \in Requests : \E q \in Requests \ {r} :
        /\ Raced(r, q)
        /\ r \in wrote /\ q \notin wrote
        /\ Cardinality(RowsWithUrl(store, new_content[r][1].url)) = 1

\* C14: two concurrent ingests of one canonical url that is not yet stored,
\* with identical title, author and body, both return the same id, one row
\* is stored, and neither returns a store fault.
C14_RaceIdempotent ==
    \A r \in Requests : \A q \in Requests \ {r} :
        (Raced(r, q) /\ new_content[r] = new_content[q])
        => /\ result[r][1].status = 200
           /\ result[q] = result[r]
           /\ Cardinality(RowsWithUrl(store, new_content[r][1].url)) = 1

\* C15: two concurrent ingests of one canonical url that is not yet stored,
\* with differing metadata: one returns an id, the other 409, never 500, and
\* the stored row carries the winner's title, author and body.
C15_RaceConflict ==
    \A r \in Requests : \A q \in Requests \ {r} :
        (Raced(r, q) /\ new_content[r] # new_content[q] /\ r \in wrote)
        => /\ result[r][1].status = 200
           /\ result[q][1].status = 409
           /\ \E i \in 1..Len(store) :
                /\ store[i].id = result[r][1].id[1]
                /\ store[i].title = new_content[r][1].title
                /\ store[i].author = new_content[r][1].author
                /\ store[i].body = new_content[r][1].body

\* "https://h/p?a&b", the canonical string of UrlA1 and of UrlA2
CanonicalA == HTTPS \o <<":", "/", "/", "h", "/", "p", "?", "a", "&", "b">>

\* C16: after an ingest of one of two raw urls that differ only by fragment,
\* trailing slash, default port, host case and query-parameter order has
\* returned an id, an ingest of the other with equal metadata returns the same
\* id, and the one row stored for them holds the canonical string, not a raw
\* input.
C16_EquivalentRawUrls ==
    [][\A r \in Requests : \A q \in Requests \ {r} :
         ( /\ IsLookupStep(r)
           /\ Succeeded(q)
           /\ {payload'[r][1].url, payload[q][1].url} = {UrlA1, UrlA2}
           /\ payload'[r][1].title = payload[q][1].title
           /\ payload'[r][1].author = payload[q][1].author
           /\ payload'[r][1].body = payload[q][1].body )
         => ( /\ result'[r] = result[q]
              /\ store' = store
              /\ Cardinality(RowsWithUrl(store', CanonicalA)) = 1
              /\ \A i \in 1..Len(store') : store'[i].url \notin {UrlA1, UrlA2} )]_vars

\* witness of C16: UrlA2 was ingested first, UrlA1 got the same id, and the
\* table holds the canonical string once
C16_Witness ==
    \E q \in Requests : \E r \in Requests \ {q} :
        /\ payload[q] = Some(AddContentRequest(UrlA2, TitleT, AuthorA, BodyB))
        /\ payload[r] = Some(AddContentRequest(UrlA1, TitleT, AuthorA, BodyB))
        /\ q \in wrote /\ r \notin wrote
        /\ pc[q] = "done" /\ pc[r] = "done"
        /\ response[q][1].status = 200 /\ response[r] = response[q]
        /\ Len(store) = 1 /\ store[1].url = CanonicalA

\* the text is empty or consists of white space only
IsBlank(s) == trim(s) = << >>

\* C17: no stored row has a title, an author or a body that is empty or
\* consists of white space only.
C17_NoBlankStored ==
    \A i \in 1..Len(store) :
        /\ store[i].title # None => ~IsBlank(store[i].title[1])
        /\ store[i].author # None => ~IsBlank(store[i].author[1])
        /\ store[i].body # None => ~IsBlank(store[i].body[1])

\* C19: an ingest whose url fails validation returns that failure as 400
\* from the lookup step on: no insert follows and the table is unchanged.
C19_InvalidUrlRejected ==
    [][\A r \in Requests :
         /\ (IsLookupStep(r) /\ ~Validated(payload'[r][1]).ok)
            => /\ pc'[r] = "ready"
               /\ result'[r] = Some(Response(400, None, Validated(payload'[r][1]).err))
               /\ new_content'[r] = None
               /\ store' = store
         /\ (payload'[r] # None /\ ~Validated(payload'[r][1]).ok)
            => r \notin wrote' /\ pc'[r] # "create"]_vars

\* witness of C19: a local address was answered 400 while the table held a row
C19_Witness ==
    \E r \in Requests :
        /\ payload[r] # None /\ payload[r][1].url = UrlLocal
        /\ pc[r] = "done" /\ response[r] = Some(Response(400, None, "LocalAddress"))
        /\ r \notin wrote
        /\ Len(store) = 1

\* C18: no call changes or removes a row: every row of the table is the same
\* row, at the same place, after every ingest (new, idempotent, conflicting,
\* invalid), list and get-by-id.
C18_RowsImmutable ==
    [][/\ Len(store') >= Len(store)
       /\ \A i \in 1..Len(store) : store'[i] = store[i]]_vars

\* witness of C18: with three rows stored, a conflicting ingest was answered
C18_Witness ==
    /\ Len(store) = 3
    /\ api_call # None
    /\ api_call[1].op = "add"
    /\ api_call[1].response.status = 409

\* the last call of the client was a list that returned items
Listed == api_call # None /\ api_call[1].op = "list" /\ api_call[1].response.status = 200

\* C20: the items a list returns are rows of the table inside the bounds, and
\* of two adjacent items the first has the later created_at, or the same
\* created_at and the greater id.
C20_ListOrdered ==
    Listed =>
      /\ \A i \in 1..Len(api_call[1].response.items) :
           \E j \in 1..Len(store) :
               /\ ContentSummary(store[j]) = api_call[1].response.items[i]
               /\ InRange(store[j], ParseBound(api_call[1].arg.since).val,
                                    ParseBound(api_call[1].arg.until).val)
      /\ \A i \in 1..(Len(api_call[1].response.items) - 1) :
           \/ api_call[1].response.items[i].created_at
                > api_call[1].response.items[i + 1].created_at
           \/ /\ api_call[1].response.items[i].created_at
                   = api_call[1].response.items[i + 1].created_at
              /\ api_call[1].response.items[i].id > api_call[1].response.items[i + 1].id

\* witness of C20: a list of three items, the first two of the same instant
\* and the third older
C20_Witness ==
    /\ Listed
    /\ Len(api_call[1].response.items) = 3
    /\ api_call[1].response.items[1].created_at = api_call[1].response.items[2].created_at
    /\ api_call[1].response.items[2].created_at > api_call[1].response.items[3].created_at

\* the page sizes and the instants the claims about list range over
PageSizes == 1..3

Instants == {None} \cup {Some(t) : t \in 0..MaxTime}

\* the ids of the rows on the page of size l at offset o, between the bounds
PageIds(table, l, o, since, until) ==
    { list(table, ListContentParams(Some(l), Some(o), since, until)).items[i].id :
        i \in 1..Len(list(table, ListContentParams(Some(l), Some(o), since, until)).items) }

\* C21: on one table, for every page size L >= 1 and every filter, the page
\* at offset 0 and the page at offset L share no id, also when rows have the
\* same created_at.
C21_PagesDisjoint ==
    \A l \in PageSizes : \A since \in Instants : \A until \in Instants :
        PageIds(store, l, 0, since, until) \cap PageIds(store, l, l, since, until) = {}

\* witness of C21: three rows, two of them of the same instant, whose first
\* and second page of size 1 are both filled, and the client has listed
C21_Witness ==
    /\ Listed
    /\ Len(store) = 3
    /\ \E i, j \in 1..3 : i # j /\ store[i].created_at = store[j].created_at
    /\ PageIds(store, 1, 0, None, None) # {}
    /\ PageIds(store, 1, 1, None, None) # {}
    /\ PageIds(store, 2, 2, None, None) # {}

\* an instant as the text of a query parameter
InstantText(instant) == IF instant = None THEN None ELSE Some(FormatNat(instant[1]))

\* the response to a list of the whole table between the bounds: offset 0 and
\* a limit above the number of rows
ListedAll(table, since, until) ==
    list_content(table, ListContentQuery(Some(Len(table) + 1), Some(0),
                                         InstantText(since), InstantText(until)))

\* C22: for every table and every combination of since and until, a list
\* with offset 0 and a limit of at least the number of rows returns each row
\* with since <= created_at <= until (a bound that is absent does not
\* restrict) exactly once, and no other row.
C22_RangeFilterExact ==
    \A since \in Instants : \A until \in Instants :
        /\ ListedAll(store, since, until).status = 200
        /\ { ListedAll(store, since, until).items[i] :
               i \in 1..Len(ListedAll(store, since, until).items) }
             = { ContentSummary(store[j]) :
                   j \in { k \in 1..Len(store) :
                             /\ since # None => since[1] <= store[k].created_at
                             /\ until # None => store[k].created_at <= until[1] } }
        /\ Len(ListedAll(store, since, until).items)
             = Cardinality({ k \in 1..Len(store) :
                               /\ since # None => since[1] <= store[k].created_at
                               /\ until # None => store[k].created_at <= until[1] })

\* witness of C22: the client listed with a since bound and got some rows but
\* not all, one of them created at the bound itself
C22_Witness ==
    /\ Listed
    /\ api_call[1].arg.since # None
    /\ Len(api_call[1].response.items) > 0
    /\ Len(api_call[1].response.items) < Len(store)
    /\ \E i \in 1..Len(api_call[1].response.items) :
           api_call[1].response.items[i].created_at = ParseNat(api_call[1].arg.since[1])

\* the limits and offsets the claims about list range over: absent, inside
\* the table and beyond its end
Limits == {None} \cup {Some(l) : l \in PageSizes}

Offsets == {None} \cup {Some(o) : o \in {0, 1, 4}}

\* the number of rows of the table between the bounds
Matching(table, since, until) ==
    Cardinality({ k \in 1..Len(table) :
                    /\ since # None => since[1] <= table[k].created_at
                    /\ until # None => table[k].created_at <= until[1] })

\* C23: the total of a list is the number of rows that match since and
\* until, whatever the offset and the limit are.
C23_TotalIgnoresPaging ==
    \A since \in Instants : \A until \in Instants :
        \A limit \in Limits : \A offset \in Offsets :
            list_content(store, ListContentQuery(limit, offset, InstantText(since),
                                                 InstantText(until))).total
              = Matching(store, since, until)

\* witness of C23: the client listed a page that is shorter than the total
\* it reports, with an offset
C23_Witness ==
    /\ Listed
    /\ api_call[1].arg.offset # None
    /\ Len(api_call[1].response.items) > 0
    /\ Len(api_call[1].response.items) < api_call[1].response.total
    /\ api_call[1].response.total = Len(store)

\* the client's last call was a list
ListCall == api_call # None /\ api_call[1].op = "list"

\* the limit of the client's last list is a number above 0
PositiveLimit ==
    /\ api_call[1].arg.limit # None
    /\ ParseU32(api_call[1].arg.limit[1]).ok
    /\ ParseU32(api_call[1].arg.limit[1]).val > 0

\* the limit of the client's last list is 0 or a negative number
ZeroOrNegativeLimit ==
    /\ api_call[1].arg.limit # None
    /\ \/ api_call[1].arg.limit[1] = <<"0">>
       \/ /\ Len(api_call[1].arg.limit[1]) > 1
          /\ api_call[1].arg.limit[1][1] = "-"
          /\ \A i \in 2..Len(api_call[1].arg.limit[1]) : IsDigit(api_call[1].arg.limit[1][i])

\* the rows of the table behind the offset of the client's last list
RowsBehindOffset ==
    IF api_call[1].arg.offset = None THEN Len(store)
    ELSE IF ParseNat(api_call[1].arg.offset[1]) > Len(store) THEN 0
    ELSE Len(store) - ParseNat(api_call[1].arg.offset[1])

\* C24: a list without limit returns 50 rows, or those that are left when
\* they are fewer; a list with a positive limit returns min(limit, 1000)
\* rows, or those that are left; no list returns more than 1000 rows; a limit
\* of 0 or a negative limit is answered 400 without a page.
C24_PageSizeBounded ==
    ListCall =>
      /\ api_call[1].arg.limit = None
           => /\ api_call[1].response.status = 200
              /\ Len(api_call[1].response.items) = Min(50, RowsBehindOffset)
      /\ PositiveLimit
           => /\ api_call[1].response.status = 200
              /\ Len(api_call[1].response.items)
                   = Min(Min(ParseNat(api_call[1].arg.limit[1]), 1000), RowsBehindOffset)
      /\ api_call[1].response.status = 200 => Len(api_call[1].response.items) <= 1000
      /\ ZeroOrNegativeLimit
           => /\ api_call[1].response.status = 400
              /\ "items" \notin DOMAIN api_call[1].response

\* witness of C24: a list with limit 1001 on a table of more than 1001 rows
\* returned 1000 of them
C24_Witness ==
    /\ ListCall
    /\ api_call[1].arg.limit = Some(<<"1", "0", "0", "1">>)
    /\ Len(store) > 1001
    /\ Len(api_call[1].response.items) = 1000

\* the client's last call was an ingest that succeeded
Ingested == api_call # None /\ api_call[1].op = "add" /\ api_call[1].response.status = 200

\* the client's last call was a lookup by id
LookedUp == api_call # None /\ api_call[1].op = "get"

\* the answer to a lookup of the id that the client's last ingest returned
LookupOfIngested == get_content_by_id(store, api_call[1].response.id[1])

\* the lookup of the id of the last ingest returns that id and the canonical
\* url, title and author of the submission
LookupKeepsUrlTitleAuthor ==
    /\ LookupOfIngested.status = 200
    /\ LookupOfIngested.item.id = api_call[1].response.id[1]
    /\ LookupOfIngested.item.url = normalize_url(api_call[1].arg.url).val
    /\ LookupOfIngested.item.title = api_call[1].arg.title
    /\ LookupOfIngested.item.author = api_call[1].arg.author

\* a lookup answers 404 for an id that no ingest has returned, and the row
\* of that id for the others
LookupByIdExact ==
    LookedUp =>
      IF api_call[1].arg \in 1..Len(store)
      THEN /\ api_call[1].response.status = 200
           /\ api_call[1].response.item = store[api_call[1].arg]
           /\ api_call[1].response.item.id = api_call[1].arg
      ELSE api_call[1].response = Response(404, None, "NotFound")

\* C25 as stated: after an ingest succeeded with id i, the lookup of i
\* returns id i, the canonical url and the title, author and body of the
\* submission; the lookup of an id that no ingest returned is answered 404.
C25_LookupReturnsSubmission ==
    /\ Ingested => /\ LookupKeepsUrlTitleAuthor
                   /\ LookupOfIngested.item.body = api_call[1].arg.body
    /\ LookupByIdExact

\* C25: after an ingest succeeded with id i, the lookup of i returns id i,
\* the canonical url, the title and author of the submission, and its body
\* unless that is empty or white space only: then the body is absent.  The
\* lookup of an id that no ingest returned is answered 404.
C25_LookupReturnsStored ==
    /\ Ingested => /\ LookupKeepsUrlTitleAuthor
                   /\ LookupOfIngested.item.body
                        = IF api_call[1].arg.body # None /\ IsBlank(api_call[1].arg.body[1])
                          THEN None ELSE api_call[1].arg.body
    /\ LookupByIdExact

\* witness of C25: the submission with a blank body was ingested a second
\* time, with the id of the second of two rows, whose body is absent
C25_Witness ==
    /\ Ingested
    /\ api_call[1].arg.body = BodyBlank
    /\ api_call[1].response.id = Some(2)
    /\ Len(store) = 2
    /\ LookupOfIngested.status = 200
    /\ LookupOfIngested.item.body = None

\* normalize_url has been called and has accepted its input
Normalized == api_call[1].op = "normalize_url" /\ api_call[1].response.ok

\* C26: for every url that normalize_url accepts, normalize_url of the
\* canonical url succeeds and returns the canonical url itself.
C26_NormalizeIdempotent ==
    Normalized => normalize_url(api_call[1].response.val) = api_call[1].response

\* the path of the ValidatedUrl of the url normalize_url was called on
CanonicalPath == validate_url(api_call[1].arg).val.path

\* C27: the canonical path of every accepted url is "/" or does not end in
\* "/"; the urls that differ by one trailing slash have one canonical url.
C27_PathWithoutTrailingSlash ==
    Normalized =>
      /\ CanonicalPath = <<"/">> \/ CanonicalPath[Len(CanonicalPath)] # "/"
      /\ normalize_url(HTTPS \o <<":", "/", "/", "h", "/", "p", "/">>)
           = normalize_url(HTTPS \o <<":", "/", "/", "h", "/", "p">>)
      /\ normalize_url(HTTPS \o <<":", "/", "/", "h">>)
           = Ok(HTTPS \o <<":", "/", "/", "h", "/">>)

\* the url normalize_url was called on, up to its query, and its query
ArgBase == Before(api_call[1].arg, {"?", "#"})

ArgQuery == AfterFirst(Before(api_call[1].arg, {"#"}), {"?"})

\* the url with the first parameter of its query moved behind the others
ArgRotated ==
    ArgBase \o <<"?">> \o AfterFirst(ArgQuery, {"&"}) \o <<"&">> \o Before(ArgQuery, {"&"})

\* the query has two parameters or more, and no two of them have one key
SeveralDistinctKeys ==
    /\ Len(query_pairs(ArgQuery)) >= 2
    /\ \A i, j \in 1..Len(query_pairs(ArgQuery)) :
           i # j => query_pairs(ArgQuery)[i][1] # query_pairs(ArgQuery)[j][1]

\* "https://h/p?a=2&b=1&c"
CanonicalThreeKeys ==
    HTTPS \o <<":", "/", "/", "h", "/", "p", "?", "a", "=", "2", "&", "b", "=", "1", "&", "c">>

\* C28: every order of the same parameters of different keys has the same
\* canonical url, and in it the keys are in ascending order: moving the
\* first parameter behind the others does not change the canonical url, the
\* six orders of three parameters have the canonical url with the keys a, b,
\* c, and the keys of every canonical query ascend.
C28_QueryOrderIrrelevant ==
    Normalized =>
      /\ SeveralDistinctKeys => normalize_url(ArgRotated) = api_call[1].response
      /\ api_call[1].arg \in ThreeKeyUrls
           => api_call[1].response = Ok(CanonicalThreeKeys)
      /\ validate_url(api_call[1].arg).val.query # None
           => \A i \in 1..(Len(validate_url(api_call[1].arg).val.query[1]) - 1) :
                  StrLt(validate_url(api_call[1].arg).val.query[1][i][1],
                        validate_url(api_call[1].arg).val.query[1][i + 1][1])

\* witness of C28: the url with the keys in the order c, b, a was given its
\* canonical url
C28_Witness ==
    /\ Normalized
    /\ api_call[1].arg = HTTPS \o <<":", "/", "/", "h", "/", "p", "?",
                                    "c", "&", "b", "=", "1", "&", "a", "=", "2">>
    /\ api_call[1].response.val = CanonicalThreeKeys
    /\ SeveralDistinctKeys

\* the parameters of the query of the url normalize_url was called on, and
\* those of its canonical url
ArgPairs == query_pairs(ArgQuery)

CanonicalPairs ==
    IF validate_url(api_call[1].arg).val.query = None THEN << >>
    ELSE validate_url(api_call[1].arg).val.query[1]

\* a key occurs more than once in the query
RepeatedKey == \E i, j \in 1..Len(ArgPairs) : i # j /\ ArgPairs[i][1] = ArgPairs[j][1]

\* "HTTPS://h/p?b=1&b=3", the key b given twice
UrlTwiceB ==
    <<"H", "T", "T", "P", "S", ":", "/", "/", "h", "/", "p", "?",
      "b", "=", "1", "&", "b", "=", "3">>

\* C30: a key that occurs in the query, once or more often, occurs in the
\* canonical query exactly once, with the value of its last occurrence;
\* "?b=1&b=3" becomes "?b=3", without the earlier value.
C30_LastValueWins ==
    Normalized =>
      /\ \A i \in 1..Len(ArgPairs) :
           /\ Cardinality({ j \in 1..Len(CanonicalPairs) :
                              CanonicalPairs[j][1] = ArgPairs[i][1] }) = 1
           /\ (\A l \in (i + 1)..Len(ArgPairs) : ArgPairs[l][1] # ArgPairs[i][1])
                => \E j \in 1..Len(CanonicalPairs) : CanonicalPairs[j] = ArgPairs[i]
      /\ api_call[1].arg = UrlTwiceB
           => api_call[1].response = Ok(HTTPS \o <<":", "/", "/", "h", "/", "p", "?",
                                                   "b", "=", "3">>)

\* witness of C30: the url with b=1 and then b=3 was given its canonical url
C30_Witness ==
    /\ Normalized
    /\ api_call[1].arg = UrlTwiceB
    /\ RepeatedKey
    /\ CanonicalPairs = << <<"b", <<"3">> >> >>

\* normalize_url has been called
NormalizeCalled == api_call[1].op = "normalize_url"

\* what Url::parse made of the url normalize_url was called on
ArgParsed == UrlParse(api_call[1].arg)

\* the parsed url has a host, and in lower case it is a local address
ArgHostLocal ==
    \/ to_lowercase(ArgParsed.host[1]) = <<"l", "o", "c", "a", "l", "h", "o", "s", "t">>
    \/ starts_with(to_lowercase(ArgParsed.host[1]), <<"1", "2", "7", ".">>)
    \/ starts_with(to_lowercase(ArgParsed.host[1]), <<"1", "9", "2", ".", "1", "6", "8", ".">>)
    \/ starts_with(to_lowercase(ArgParsed.host[1]), <<"1", "0", ".">>)

\* the kind of the first step that fails for the url, "" if none fails
FirstFailure ==
    IF api_call[1].arg = << >> THEN "EmptyUrl"
    ELSE IF ~ArgParsed.ok THEN "MalformedUrl"
    ELSE IF ArgParsed.scheme \notin {HTTP, HTTPS} THEN "UnsupportedScheme"
    ELSE IF ArgParsed.host = None THEN "MissingHost"
    ELSE IF ArgParsed.host[1] = << >> THEN "MissingHost"
    ELSE IF ArgHostLocal THEN "LocalAddress"
    ELSE ""

\* the rejection that normalize_url returned for the url
RejectedAs(url, failure) ==
    api_call[1].arg = url => api_call[1].response = [ok |-> FALSE, err |-> failure]

\* C29: normalize_url rejects with the kind of the first step that fails,
\* in the order empty, parse, scheme, host, local address, and a rejection
\* carries no canonical url; "" is EmptyUrl, text that is no url and a url
\* without host are MalformedUrl, javascript:, data: and ftp: (also without
\* host, also of a local host) are UnsupportedScheme, and localhost in any
\* case, 127., 192.168. and 10. are LocalAddress.
C29_RejectionKinds ==
    NormalizeCalled =>
      /\ FirstFailure # "" => api_call[1].response = [ok |-> FALSE, err |-> FirstFailure]
      /\ FirstFailure = "" => api_call[1].response.ok
      /\ ~api_call[1].response.ok => DOMAIN api_call[1].response = {"ok", "err"}
      /\ RejectedAs(<< >>, "EmptyUrl")
      /\ RejectedAs(<<"x">>, "MalformedUrl")
      /\ RejectedAs(HTTPS \o <<":", "/", "/">>, "MalformedUrl")
      /\ RejectedAs(<<"j", "a", "v", "a", "s", "c", "r", "i", "p", "t", ":", "x">>,
                    "UnsupportedScheme")
      /\ RejectedAs(<<"d", "a", "t", "a", ":", "x">>, "UnsupportedScheme")
      /\ RejectedAs(FTP \o <<":", "/", "/", "h">>, "UnsupportedScheme")
      /\ RejectedAs(FTP \o <<":", "/", "/", "l", "o", "c", "a", "l", "h", "o", "s", "t">>,
                    "UnsupportedScheme")
      /\ RejectedAs(HTTP \o <<":", "/", "/", "L", "o", "c", "a", "l", "h", "o", "s", "t">>,
                    "LocalAddress")
      /\ RejectedAs(HTTP \o <<":", "/", "/", "1", "2", "7", ".", "0", ".", "0", ".", "1">>,
                    "LocalAddress")
      /\ RejectedAs(HTTP \o <<":", "/", "/", "1", "9", "2", ".", "1", "6", "8", ".", "0",
                               ".", "1">>, "LocalAddress")
      /\ RejectedAs(HTTP \o <<":", "/", "/", "1", "0", ".", "0", ".", "0", ".", "1">>,
                    "LocalAddress")

\* witness of C29: ftp://localhost was rejected for its scheme, the step
\* before the local address
C29_Witness ==
    /\ NormalizeCalled
    /\ api_call[1].arg = FTP \o <<":", "/", "/", "l", "o", "c", "a", "l", "h", "o", "s", "t">>
    /\ api_call[1].response = [ok |-> FALSE, err |-> "UnsupportedScheme"]

\* the authority of the url normalize_url was called on, and the digits
\* behind its last ':' (none when there is no ':')
ArgAuthority == Before(From(ArgBase, IndexOfAny(ArgBase, {":"}) + 3), {"/"})

ArgPortText ==
    IF LastIndexOf(ArgAuthority, ":") = 0 THEN << >>
    ELSE From(ArgAuthority, LastIndexOf(ArgAuthority, ":") + 1)

\* "https://h/p" and "http://h/p", with a port put behind the host
HttpsWithPort(port) == HTTPS \o <<":", "/", "/", "h">> \o port \o <<"/", "p">>

HttpWithPort(port) == HTTP \o <<":", "/", "/", "h">> \o port \o <<"/", "p">>

\* C31: the canonical url has no port when the url has none or has the
\* default of its scheme (80 for http, 443 for https), and has the port of
\* the url otherwise: https with 443 and http with 80 are the urls without
\* port, https with 80, http with 443 and https with 8080 keep the port.
C31_DefaultPortDropped ==
    Normalized =>
      /\ validate_url(api_call[1].arg).val.port
           = IF ArgPortText = << >> THEN None
             ELSE IF validate_url(api_call[1].arg).val.scheme = HTTP
                     /\ ParseNat(ArgPortText) = 80 THEN None
             ELSE IF validate_url(api_call[1].arg).val.scheme = HTTPS
                     /\ ParseNat(ArgPortText) = 443 THEN None
             ELSE Some(ParseNat(ArgPortText))
      /\ normalize_url(HttpsWithPort(<<":", "4", "4", "3">>)) = Ok(HttpsWithPort(<< >>))
      /\ normalize_url(HttpsWithPort(<< >>)) = Ok(HttpsWithPort(<< >>))
      /\ normalize_url(HttpWithPort(<<":", "8", "0">>)) = Ok(HttpWithPort(<< >>))
      /\ normalize_url(HttpWithPort(<< >>)) = Ok(HttpWithPort(<< >>))
      /\ normalize_url(HttpsWithPort(<<":", "8", "0">>)) = Ok(HttpsWithPort(<<":", "8", "0">>))
      /\ normalize_url(HttpWithPort(<<":", "4", "4", "3">>))
           = Ok(HttpWithPort(<<":", "4", "4", "3">>))
      /\ normalize_url(HttpsWithPort(<<":", "8", "0", "8", "0">>))
           = Ok(HttpsWithPort(<<":", "8", "0", "8", "0">>))

\* witness of C31: http with the port 443 was given a canonical url that
\* keeps the port
C31_Witness ==
    /\ Normalized
    /\ api_call[1].arg = HttpWithPort(<<":", "4", "4", "3">>)
    /\ api_call[1].response = Ok(HttpWithPort(<<":", "4", "4", "3">>))
    /\ validate_url(api_call[1].arg).val.port = Some(443)

\* the step of request q is its handler's insert
IsInsertStep(q) == pc[q] = "create" /\ pc'[q] = "ready"

\* C32: between the lookup of an ingest and the insert of the same ingest no
\* other request's lookup or insert takes effect on the store.
C32_LookupInsertExclusive ==
    [][\A r \in Requests : \A q \in Requests \ {r} :
         pc[r] = "create" => ~IsLookupStep(q) /\ ~IsInsertStep(q)]_vars

\* request r has the reply of list_content to a query it did not refuse
ListReplied(r) ==
    /\ result[r] # None
    /\ result[r][1].status = 200
    /\ "total" \in DOMAIN result[r][1]

\* the rows of a listing of `total` rows that lie behind the offset
RowsBehind(total, offset) ==
    IF offset = None THEN total
    ELSE IF total > offset[1] THEN total - offset[1] ELSE 0

\* the query of r asks for the listing from its first row on
FromFirstRow(r) == payload[r][1].offset \in {None, Some(0)}

\* C33: a list computes its page and its total on the same table: a reply
\* for offset 0 whose effective limit is at least the total has as many
\* items as the total says, and every reply has the items the total leaves
\* behind the offset, up to the effective limit.
C33_PageAndTotalAgree ==
    \A r \in Requests :
        ListReplied(r) =>
            /\ FromFirstRow(r) /\ EffectiveLimit(payload[r][1].limit) >= result[r][1].total
                 => Len(result[r][1].items) = result[r][1].total
            /\ Len(result[r][1].items)
                 = Min(EffectiveLimit(payload[r][1].limit),
                       RowsBehind(result[r][1].total, payload[r][1].offset))

\* a list has answered with the one row that the insert of another request
\* put into the table
C33_Witness ==
    \E r \in Requests : \E q \in Requests \ {r} :
        /\ ListReplied(r) /\ FromFirstRow(r)
        /\ q \in wrote
        /\ result[r][1].total = 1
        /\ Len(result[r][1].items) = 1

\* the step is the load of the flag in call() for r, and it finds the flag clear
AcceptDecision(r) == pc[r] = "idle" /\ pc'[r] = "accepting"

\* call() found the flag set for q and answered with the immediate 503 future
RejectedForShutdown(q) == kind[q] = "Immediate"

\* C34: every accept decision precedes every reject decision: once call() has
\* rejected a request for shutdown, no later load of the flag accepts one.
C34_NoAcceptAfterReject ==
    [][\A r \in Requests :
         AcceptDecision(r) => \A q \in Requests : ~RejectedForShutdown(q)]_vars

\* one request was accepted, and a request that arrived later was rejected
C34_Witness ==
    \E r \in Requests : \E q \in Requests :
        /\ r < q
        /\ Accepted(r)
        /\ RejectedForShutdown(q)
        /\ ~shutAtCall[r] /\ shutAtCall[q]

\* C35: drained is stable: once shutdown_completed has returned (the flag set
\* and the counter seen at 0), the counter is 0 in every later state and no
\* inner handler is started or running.
C35_DrainedStable ==
    signal_pc = "drained" => in_flight_count = 0 /\ Running = {}

\* the client's last call was a list that was answered with a page
ListAnswered == ListCall /\ api_call[1].response.status = 200

\* the limit the client's last list asked for, 50 when it named none
RequestedLimit ==
    IF api_call[1].arg.limit = None THEN DefaultLimit
    ELSE ParseNat(api_call[1].arg.limit[1])

\* C36 as stated: the limit of the response is the effective limit, 50 when
\* absent and min(requested, 1000) otherwise, so that
\* items.length <= response.limit <= 1000.
C36_LimitIsEffective ==
    ListAnswered =>
        /\ api_call[1].response.limit = Min(RequestedLimit, MaxLimit)
        /\ Len(api_call[1].response.items) <= api_call[1].response.limit
        /\ api_call[1].response.limit <= MaxLimit

\* C36: the limit of the response is the limit that was asked for, 50 when
\* absent, without the clamp to 1000 that the query gets; the page has at
\* most min(response.limit, 1000) items.
C36_LimitEchoesRequest ==
    ListAnswered =>
        /\ api_call[1].response.limit = RequestedLimit
        /\ Len(api_call[1].response.items) <= Min(api_call[1].response.limit, MaxLimit)

\* a list with limit 1001 on a table of more than 1001 rows returned 1000 of
\* them and reported the limit 1001
C36_Witness ==
    /\ ListAnswered
    /\ api_call[1].arg.limit = Some(<<"1", "0", "0", "1">>)
    /\ Len(store) > 1001
    /\ Len(api_call[1].response.items) = MaxLimit
    /\ api_call[1].response.limit = 1001

\* the page sizes of the claim about all pages: small ones and the largest
PageLimits == PageSizes \cup {MaxLimit}

\* the page list returns for limit l at offset o, between the bounds
PageAt(table, l, o, since, until) ==
    list(table, ListContentParams(Some(l), Some(o), since, until)).items

RECURSIVE PagesFrom(_, _, _, _, _)
\* the pages at the offsets k*l, (k+1)*l, ... one after the other, up to the
\* first offset behind the last row
PagesFrom(table, l, k, since, until) ==
    IF k * l > Len(table) THEN << >>
    ELSE PageAt(table, l, k * l, since, until) \o PagesFrom(table, l, k + 1, since, until)

\* the rows are in the order (created_at desc, id desc)
NewestFirst(rows) ==
    \A i, j \in 1..Len(rows) :
        i < j => \/ rows[i].created_at > rows[j].created_at
                 \/ rows[i].created_at = rows[j].created_at /\ rows[i].id > rows[j].id

\* the rows are those of the table between the bounds, each of them once
EachMatchingOnce(rows, table, since, until) ==
    /\ Len(rows) = Matching(table, since, until)
    /\ \A k \in 1..Len(table) :
         ((since # None => since[1] <= table[k].created_at)
            /\ (until # None => table[k].created_at <= until[1]))
           => \E i \in 1..Len(rows) : rows[i] = table[k]

\* C37: on an unchanged table, for every filter and every page size L with
\* 1 <= L <= 1000, the pages at the offsets 0, L, 2L, ... one after the other
\* are the rows that match the filter, each once, in the order (created_at
\* desc, id desc), and the page at offset o has min(L, max(0, total - o)) rows.
C37_PagesCoverListing ==
    \A l \in PageLimits : \A since \in Instants : \A until \in Instants :
        /\ EachMatchingOnce(PagesFrom(store, l, 0, since, until), store, since, until)
        /\ NewestFirst(PagesFrom(store, l, 0, since, until))
        /\ \A k \in 0..(Len(store) + 1) :
             Len(PageAt(store, l, k * l, since, until))
               = Min(l, RowsBehind(Matching(store, since, until), Some(k * l)))

\* three rows, two of them of the same instant, that the pages of size 2 hold
\* as two and one, after the client has listed
C37_Witness ==
    /\ Listed
    /\ Len(store) = 3
    /\ \E i, j \in 1..3 : i # j /\ store[i].created_at = store[j].created_at
    /\ Len(PageAt(store, 2, 0, None, None)) = 2
    /\ Len(PageAt(store, 2, 2, None, None)) = 1
    /\ Len(PagesFrom(store, 2, 0, None, None)) = 3

====
